---- MODULE Spec2Model ----
(***************************************************************************)
(* Teen Driver: the preference-to-score mapping and vehicle ranking engine *)
(* (src/src/lib/retrieval.ts) as a state machine.                          *)
(*                                                                         *)
(* The Vehicle table of the catalog store is the shared state; every      *)
(* invocation of getTopVehicles is a call that awaits the catalog read     *)
(* (prisma.vehicle.findMany), and then maps, sorts and slices its own      *)
(* snapshot in one synchronous step.  Later sections model the answer     *)
(* normalizer (preferences.ts), the vehicle-ranking route and the vehicle  *)
(* lookup of the quiz page, each under a specification of its own.         *)
(*                                                                         *)
(* Numbers.  A score is a JavaScript number that may carry the fraction    *)
(* 2 * matches / tags.length.  The model keeps every score exactly, as the *)
(* integer Scale * score, where every admitted tags.length divides Scale.  *)
(* Rounding of IEEE doubles is not modelled.                               *)
(***************************************************************************)
EXTENDS Integers, Sequences, FiniteSets

VARIABLES
    catalog,    \* the rows of the Vehicle table, in storage order
    calls,      \* the invocations of getTopVehicles: position and locals
    page        \* the quiz page: its lookup form and the lookups in flight

vars == <<catalog, calls, page>>

---------------------------------------------------------------------------
(* Bounds of the model *)

MaxCatalog == 3      \* rows in the Vehicle table
MaxLimit == 3        \* largest explicit limit a caller passes
MaxPrefTags == 3     \* longest tags list of a tag preference
MaxNotable == 4      \* longest safetyNotableFeatures list
MaxCalls == 3        \* concurrent invocations
MaxAnswers == 2      \* longest list of answer records
MaxLookups == 2      \* vehicle lookups the page sends

---------------------------------------------------------------------------
(* Optional values: undefined / null is the empty tuple, a present value x *)
(* is <<x>>.                                                               *)

Nil == <<>>

Some(x) == <<x>>

\* a ?? b
OrElse(opt, default) == IF opt = Nil THEN default ELSE opt[1]

Min2(a, b) == IF a <= b THEN a ELSE b

Max2(a, b) == IF a >= b THEN a ELSE b

Range(s) == {s[i] : i \in 1..Len(s)}

RECURSIVE Factorial(_)
Factorial(n) == IF n <= 1 THEN 1 ELSE n * Factorial(n - 1)

\* The fixed-point unit: a JavaScript number x is kept as Scale * x.
Scale == Factorial(MaxPrefTags)

Num(n) == n * Scale

---------------------------------------------------------------------------
(* Types of retrieval.ts *)

FitTag == {"DAILY_COMMUTE", "SHARED_FAMILY", "WEEKEND_ADVENTURE", "ECO_CONSCIOUS"}

ExtrasTag == {"AMERICAN_MADE", "BRIGHT_COLOR", "ECO_CONSCIOUS", "HIGHER_SEATING"}

SafetyLevel == {"baseline", "advanced", "max"}

DEFAULT_PRIORITY == 3

DEFAULT_LIMIT == 4

\* priority?: number, as the quiz offers it (1..5) or left out
Priorities == {Nil} \cup {Some(p) : p \in 1..5}

BudgetPreference(min, max, priority) ==
    [min |-> min, max |-> max, priority |-> priority]

SafetyPreference(level, priority) == [level |-> level, priority |-> priority]

TagPreference(tags, priority) == [tags |-> tags, priority |-> priority]

PreferenceProfile(budget, safety, usage, extras) ==
    [budget |-> budget, safety |-> safety, usage |-> usage, extras |-> extras]

\* the profile {} : no axis set
EmptyProfile == PreferenceProfile(Nil, Nil, Nil, Nil)

\* the first n notable safety features of a row
Features(n) == SubSeq(<<"f1", "f2", "f3", "f4", "f5", "f6">>, 1, n)

\* A row of the Vehicle table, restricted to the columns scoring reads.
Vehicle(msrpMin, msrpMax, iihs, nhtsa, notable, fitTags, extrasTags) ==
    [msrpMin |-> msrpMin, msrpMax |-> msrpMax,
     safetyIihsTopSafetyPick |-> iihs,
     safetyNhtsaOverall |-> nhtsa,
     safetyNotableFeatures |-> Features(notable),
     fitTags |-> fitTags, extrasTags |-> extrasTags]

WithId(v, id) ==
    [id |-> id, msrpMin |-> v.msrpMin, msrpMax |-> v.msrpMax,
     safetyIihsTopSafetyPick |-> v.safetyIihsTopSafetyPick,
     safetyNhtsaOverall |-> v.safetyNhtsaOverall,
     safetyNotableFeatures |-> v.safetyNotableFeatures,
     fitTags |-> v.fitTags, extrasTags |-> v.extrasTags]

---------------------------------------------------------------------------
(* Scoring: retrieval.ts lines 51-147 *)

\* Mutant of weight: the explicit priority is ignored, every axis weighs
\* the default.
weightDefaultOnly(base, priority) == base * DEFAULT_PRIORITY

weight(base, priority) == base * OrElse(priority, DEFAULT_PRIORITY)

\* x <= max + delta where max = pref.max ?? Number.POSITIVE_INFINITY
AtMost(x, max, delta) == max = Nil \/ x <= max[1] + delta

\* Mutant of ceilingPoints: the tolerance band earns what a price under the
\* ceiling earns, and a price under the ceiling what the band earns.
ceilingPointsBandFirst(msrpMax, max) ==
    IF AtMost(msrpMax, max, 0)
    THEN 2 + (IF AtMost(msrpMax, max, -2000) THEN 2 ELSE 0)
    ELSE IF AtMost(msrpMax, max, 2500) THEN 6 ELSE -6

\* the ceiling part of the raw budget score (lines 62-71)
ceilingPoints(msrpMax, max) ==
    IF AtMost(msrpMax, max, 0)
    THEN 6 + (IF AtMost(msrpMax, max, -2000) THEN 2 ELSE 0)
    ELSE IF AtMost(msrpMax, max, 2500) THEN 2 ELSE -6

\* Mutant of floorPoints: a price exactly on the floor counts as under it.
floorPointsAboveOnly(msrpMin, min) ==
    IF min > 0
    THEN IF msrpMin > min THEN 2
         ELSE IF msrpMin >= min - 2000 THEN 1 ELSE -2
    ELSE 0

\* the floor part of the raw budget score (lines 73-81)
floorPoints(msrpMin, min) ==
    IF min > 0
    THEN IF msrpMin >= min THEN 2
         ELSE IF msrpMin >= min - 2000 THEN 1 ELSE -2
    ELSE 0

scoreBudget(vehicle, pref) ==
    IF pref = Nil THEN 0
    ELSE LET min == OrElse(pref[1].min, 0)
             max == pref[1].max
             score == ceilingPoints(vehicle.msrpMax, max)
                      + floorPoints(vehicle.msrpMin, min)
         IN weight(Num(score), pref[1].priority)

\* Mutant of iihsPoints: max charges a missing pick what advanced charges.
iihsPointsFlatMiss(level, iihs) ==
    CASE level = "baseline" -> (IF iihs THEN 4 ELSE 0)
      [] level = "advanced" -> (IF iihs THEN 6 ELSE -4)
      [] level = "max" -> (IF iihs THEN 8 ELSE -4)

\* score += iihs ? .. : ..  (lines 95, 99, 104)
iihsPoints(level, iihs) ==
    CASE level = "baseline" -> (IF iihs THEN 4 ELSE 0)
      [] level = "advanced" -> (IF iihs THEN 6 ELSE -4)
      [] level = "max" -> (IF iihs THEN 8 ELSE -6)

\* Mutant of nhtsaPoints: max charges a missed threshold what baseline
\* charges.
nhtsaPointsFlatMiss(level, nhtsa) ==
    CASE level = "baseline" -> (IF nhtsa >= 4 THEN 4 ELSE -2)
      [] level = "advanced" -> (IF nhtsa >= 5 THEN 5 ELSE 0)
      [] level = "max" -> (IF nhtsa >= 5 THEN 6 ELSE -2)

\* score += nhtsa >= .. ? .. : ..  (lines 96, 100, 105)
nhtsaPoints(level, nhtsa) ==
    CASE level = "baseline" -> (IF nhtsa >= 4 THEN 4 ELSE -2)
      [] level = "advanced" -> (IF nhtsa >= 5 THEN 5 ELSE 0)
      [] level = "max" -> (IF nhtsa >= 5 THEN 6 ELSE -4)

\* score += notable >= .. ? .. : ..  (lines 101, 106; baseline reads none)
notablePoints(level, notable) ==
    CASE level = "baseline" -> 0
      [] level = "advanced" ->
            (IF notable >= 2 THEN 3 ELSE IF notable > 0 THEN 1 ELSE -2)
      [] level = "max" -> (IF notable >= 3 THEN 4 ELSE -2)

\* Mutant of scoreSafety: a row without a rating is neither rewarded nor
\* charged on the NHTSA line.
scoreSafetyMissingNeutral(vehicle, pref) ==
    IF pref = Nil THEN 0
    ELSE LET notable == Len(vehicle.safetyNotableFeatures)
             iihs == vehicle.safetyIihsTopSafetyPick
             rated == IF vehicle.safetyNhtsaOverall = Nil THEN 0
                      ELSE nhtsaPoints(pref[1].level, vehicle.safetyNhtsaOverall[1])
             score == iihsPoints(pref[1].level, iihs) + rated
                      + notablePoints(pref[1].level, notable)
         IN weight(Num(score), pref[1].priority)

scoreSafety(vehicle, pref) ==
    IF pref = Nil THEN 0
    ELSE LET notable == Len(vehicle.safetyNotableFeatures)
             nhtsa == OrElse(vehicle.safetyNhtsaOverall, 0)
             iihs == vehicle.safetyIihsTopSafetyPick
             score == iihsPoints(pref[1].level, iihs)
                      + nhtsaPoints(pref[1].level, nhtsa)
                      + notablePoints(pref[1].level, notable)
         IN weight(Num(score), pref[1].priority)

\* Mutant of matchingTags: the requested tags the row has are counted,
\* repeats and all, instead of the row's tags that are requested.
matchingTagsOfRequest(vehicleTags, tags) == {i \in 1..Len(tags) : tags[i] \in vehicleTags}

\* vehicleTags.filter((tag) => pref.tags.includes(tag))
matchingTags(vehicleTags, tags) == {t \in vehicleTags : t \in Range(tags)}

\* Mutant of tagDivisors: the ratio is computed before the two early
\* returns, for every preference.
tagDivisorsUnguarded(vehicleTags, pref) ==
    IF pref = Nil THEN {} ELSE {Len(pref[1].tags)}

\* the divisors the division of line 123 is evaluated with in one call of
\* scoreTags: none when line 118 or line 121 returns first
tagDivisors(vehicleTags, pref) ==
    IF pref = Nil \/ Len(pref[1].tags) = 0 THEN {}
    ELSE IF Cardinality(matchingTags(vehicleTags, pref[1].tags)) = 0 THEN {}
    ELSE {Len(pref[1].tags)}

\* Mutant of scoreTags: the flat penalty is returned without its weight.
scoreTagsBarePenalty(vehicleTags, pref, baseWeight) ==
    IF pref = Nil \/ Len(pref[1].tags) = 0 THEN 0
    ELSE LET matches == Cardinality(matchingTags(vehicleTags, pref[1].tags))
         IN IF matches = 0
            THEN Num(-3)
            ELSE LET ratio2 == (Num(matches) * 2) \div Len(pref[1].tags)
                     bonus == matches * baseWeight
                 IN weight(Num(bonus) + ratio2, pref[1].priority)

scoreTags(vehicleTags, pref, baseWeight) ==
    IF pref = Nil \/ Len(pref[1].tags) = 0 THEN 0
    ELSE LET matches == Cardinality(matchingTags(vehicleTags, pref[1].tags))
         IN IF matches = 0
            THEN weight(Num(-3), pref[1].priority)
            ELSE LET ratio2 == (Num(matches) * 2) \div Len(pref[1].tags)
                     bonus == matches * baseWeight
                 IN weight(Num(bonus) + ratio2, pref[1].priority)

\* Mutant of scoreVehicle: an axis the profile leaves out is charged the
\* flat tag penalty at the default priority.
scoreVehiclePenalisingAbsent(vehicle, profile) ==
    LET budgetScore == scoreBudget(vehicle, profile.budget)
        safetyScore == scoreSafety(vehicle, profile.safety)
        usageScore == IF profile.usage = Nil THEN weight(Num(-3), Nil)
                      ELSE scoreTags(vehicle.fitTags, profile.usage, 4)
        extrasScore == IF profile.extras = Nil THEN weight(Num(-3), Nil)
                       ELSE scoreTags(vehicle.extrasTags, profile.extras, 2)
    IN [total |-> budgetScore + safetyScore + usageScore + extrasScore,
        breakdown |-> [budget |-> budgetScore, safety |-> safetyScore,
                       usage |-> usageScore, extras |-> extrasScore]]

scoreVehicle(vehicle, profile) ==
    LET budgetScore == scoreBudget(vehicle, profile.budget)
        safetyScore == scoreSafety(vehicle, profile.safety)
        usageScore == scoreTags(vehicle.fitTags, profile.usage, 4)
        extrasScore == scoreTags(vehicle.extrasTags, profile.extras, 2)
    IN [total |-> budgetScore + safetyScore + usageScore + extrasScore,
        breakdown |-> [budget |-> budgetScore, safety |-> safetyScore,
                       usage |-> usageScore, extras |-> extrasScore]]

---------------------------------------------------------------------------
(* Ranking: retrieval.ts lines 149-170 *)

\* One element of the mapped array: the row, its score and its breakdown.
ScoredVehicle(vehicle, profile) ==
    LET r == scoreVehicle(vehicle, profile)
    IN [vehicle |-> vehicle, score |-> r.total, scoreBreakdown |-> r.breakdown]

\* vehicles.map(...)
mapScored(vehicles, profile) ==
    [i \in 1..Len(vehicles) |-> ScoredVehicle(vehicles[i], profile)]

\* Mutant of insertSorted: a row goes ahead of the rows of equal score that
\* are already placed, as an unstable sort may leave it.
RECURSIVE insertBeforeTies(_, _)
insertBeforeTies(sorted, x) ==
    IF sorted = <<>> THEN <<x>>
    ELSE IF Head(sorted).score > x.score
         THEN <<Head(sorted)>> \o insertBeforeTies(Tail(sorted), x)
         ELSE <<x>> \o sorted

\* Where the stable sort puts x in a list already sorted: behind every
\* element the comparator b.score - a.score does not put behind x.
RECURSIVE insertSorted(_, _)
insertSorted(sorted, x) ==
    IF sorted = <<>> THEN <<x>>
    ELSE IF Head(sorted).score >= x.score
         THEN <<Head(sorted)>> \o insertSorted(Tail(sorted), x)
         ELSE <<x>> \o sorted

\* Mutant of sortByScore: the comparator a.score - b.score, ascending.
RECURSIVE sortAscending(_)
sortAscending(scored) ==
    IF scored = <<>> THEN <<>>
    ELSE LET rest == sortAscending(Tail(scored))
             lower == SelectSeq(rest, LAMBDA r : r.score < Head(scored).score)
             upper == SelectSeq(rest, LAMBDA r : r.score >= Head(scored).score)
         IN lower \o <<Head(scored)>> \o upper

\* .sort((a, b) => b.score - a.score): Array.prototype.sort is stable
RECURSIVE sortByScore(_)
sortByScore(scored) ==
    IF scored = <<>> THEN <<>>
    ELSE insertSorted(sortByScore(SubSeq(scored, 1, Len(scored) - 1)),
                      scored[Len(scored)])

\* a relative index of Array.prototype.slice, clamped to 0..len
relativeIndex(k, len) == IF k < 0 THEN Max2(len + k, 0) ELSE Min2(k, len)

\* Mutant of slice: .slice(end), the rows behind the first `end`.
sliceFrom(array, end) ==
    SubSeq(array, relativeIndex(end, Len(array)) + 1, Len(array))

\* .slice(0, end)
slice(array, end) == SubSeq(array, 1, relativeIndex(end, Len(array)))

\* Mutant of rankVehicles: the slice taken before the sort, so that only
\* the first `limit` rows fetched are ranked.
rankSlicedFirst(vehicles, profile, limit) ==
    sortByScore(slice(mapScored(vehicles, profile), OrElse(limit, DEFAULT_LIMIT)))

\* the body of getTopVehicles after the catalog read
rankVehicles(vehicles, profile, limit) ==
    slice(sortByScore(mapScored(vehicles, profile)), OrElse(limit, DEFAULT_LIMIT))

---------------------------------------------------------------------------
(* The catalog read *)

IndexOrders(n) == {p \in [1..n -> 1..n] : \A i, j \in 1..n : p[i] = p[j] => i = j}

\* findMany without orderBy: the rows in an order the store chooses
FetchOrders(rows) == {[i \in 1..Len(rows) |-> rows[p[i]]] : p \in IndexOrders(Len(rows))}

\* the tables of the given sizes over a pool of rows, ids in storage order
Catalogs(pool, sizes) ==
    UNION {{[i \in 1..k |-> WithId(f[i], i)] : f \in [1..k -> pool]} : k \in sizes}

---------------------------------------------------------------------------
(* The quiz page before anything is answered or typed: the initial values  *)
(* of its useState hooks (page.tsx lines 1520-1552).  `pending` holds the  *)
(* lookups whose fetch has not settled; submitted, resetAt and applied are *)
(* history: the number of lookups sent so far, that number at the last     *)
(* resetQuiz, and the lookup whose response set the status shown (0: none).*)

IdlePage ==
    [hasSummary |-> FALSE,
     lookupYear |-> <<>>, lookupMake |-> <<>>, lookupModel |-> <<>>,
     lookupStatus |-> "idle", lookupError |-> Nil, lookupResult |-> Nil,
     pending |-> {}, submitted |-> 0, resetAt |-> 0, applied |-> 0]

---------------------------------------------------------------------------
(* Calls *)

CallIds == 1..MaxCalls

IdleCall == [pc |-> "idle", profile |-> EmptyProfile, limit |-> Nil,
             vehicles |-> <<>>, scored |-> <<>>]

\* Mutant of snapshotOf: the call ranks the rows the table holds when it
\* ranks, as a shared cache of the table would give them.
sharedRows(c) == catalog

\* the snapshot a call ranks: the local `vehicles`
snapshotOf(c) == calls[c].vehicles

\* a caller invokes getTopVehicles(profile, limit)
Invoke(c, profile, limit) ==
    /\ calls[c].pc = "idle"
    /\ calls' = [calls EXCEPT ![c] = [@ EXCEPT !.pc = "await",
                                               !.profile = profile,
                                               !.limit = limit]]
    /\ UNCHANGED <<catalog, page>>

\* await prisma.vehicle.findMany(...) resolves
Fetch(c) ==
    /\ calls[c].pc = "await"
    /\ \E rows \in FetchOrders(catalog) :
          calls' = [calls EXCEPT ![c] = [@ EXCEPT !.pc = "fetched",
                                                  !.vehicles = rows]]
    /\ UNCHANGED <<catalog, page>>

\* .map(...).sort(...).slice(0, limit); return scored
Rank(c) ==
    /\ calls[c].pc = "fetched"
    /\ calls' = [calls EXCEPT ![c] =
                    [@ EXCEPT !.pc = "done",
                              !.scored = rankVehicles(snapshotOf(c),
                                                      calls[c].profile,
                                                      calls[c].limit)]]
    /\ UNCHANGED <<catalog, page>>

\* the limits a caller passes: left out, negative, 0..MaxLimit
Limits == {Nil} \cup {Some(n) : n \in -1..MaxLimit}

---------------------------------------------------------------------------
(* Spec: top-N retrieval by one caller over every small catalog *)

CatalogPool ==
    {Vehicle(17000, 19000, TRUE, Some(5), 3, {"DAILY_COMMUTE"}, {"ECO_CONSCIOUS"}),
     Vehicle(17000, 19000, FALSE, Some(4), 1, {"DAILY_COMMUTE", "SHARED_FAMILY"}, {}),
     Vehicle(21000, 22000, TRUE, Nil, 0, {}, {"ECO_CONSCIOUS", "BRIGHT_COLOR"}),
     Vehicle(23000, 25000, FALSE, Some(3), 0, {"SHARED_FAMILY"}, {})}

ProfilePool ==
    {EmptyProfile,
     PreferenceProfile(Some(BudgetPreference(Nil, Some(20000), Some(5))),
                       Some(SafetyPreference("max", Some(4))), Nil, Nil),
     PreferenceProfile(Some(BudgetPreference(Some(18000), Some(20000), Nil)),
                       Nil, Nil, Nil),
     PreferenceProfile(Nil, Nil,
                       Some(TagPreference(<<"DAILY_COMMUTE", "SHARED_FAMILY", "ECO_CONSCIOUS">>, Some(2))),
                       Some(TagPreference(<<"BRIGHT_COLOR", "ECO_CONSCIOUS">>, Nil))),
     PreferenceProfile(Some(BudgetPreference(Some(18000), Nil, Some(1))),
                       Some(SafetyPreference("advanced", Nil)),
                       Some(TagPreference(<<>>, Some(2))),
                       Some(TagPreference(<<"BRIGHT_COLOR">>, Some(1))))}

Init ==
    /\ catalog \in Catalogs(CatalogPool, 0..MaxCatalog)
    /\ calls = [c \in {1} |-> IdleCall]
    /\ page = IdlePage

Next ==
    \/ \E profile \in ProfilePool, limit \in Limits : Invoke(1, profile, limit)
    \/ Fetch(1)
    \/ Rank(1)

Spec == Init /\ [][Next]_vars

---------------------------------------------------------------------------
(* What a finished call returned, and where its rows came from *)

Done(c) == calls[c].pc = "done"

\* the limit a call runs with: limit = 4 when the caller passes none
limitOf(c) == OrElse(calls[c].limit, DEFAULT_LIMIT)

\* the position of the row with this id in a call's snapshot
fetchPosition(c, id) == CHOOSE i \in 1..Len(calls[c].vehicles) : calls[c].vehicles[i].id = id

returnedIds(c) == {calls[c].scored[i].vehicle.id : i \in 1..Len(calls[c].scored)}

---------------------------------------------------------------------------
(* Claims on top-N retrieval, under Spec *)

\* C1: what getTopVehicles returns is sorted descending by total score (each
\* returned score is >= the one after it), and every row of the catalog that
\* is not returned scores <= every returned row: the result is the top of
\* the ranking of the whole catalog.
C1_SortedTopOfWholeCatalog ==
    \A c \in DOMAIN calls :
        Done(c) =>
            LET out == calls[c].scored
            IN /\ \A i \in 1..(Len(out) - 1) : out[i].score >= out[i + 1].score
               /\ \A k \in 1..Len(catalog) :
                     catalog[k].id \notin returnedIds(c) =>
                        \A i \in 1..Len(out) :
                            scoreVehicle(catalog[k], calls[c].profile).total
                                <= out[i].score

\* C1 happens: a call returned part of the catalog, with two different
\* scores, left out a row that scores lower, and had fetched a lower-scoring
\* row ahead of a higher-scoring one.
C1_Witness ==
    \E c \in DOMAIN calls :
        /\ Done(c)
        /\ Len(calls[c].scored) >= 2
        /\ Len(calls[c].scored) < Len(catalog)
        /\ calls[c].scored[1].score > calls[c].scored[2].score
        /\ \E k \in 1..Len(catalog) :
              /\ catalog[k].id \notin returnedIds(c)
              /\ scoreVehicle(catalog[k], calls[c].profile).total
                     < calls[c].scored[Len(calls[c].scored)].score
        /\ scoreVehicle(calls[c].vehicles[1], calls[c].profile).total
               < scoreVehicle(calls[c].vehicles[Len(calls[c].vehicles)], calls[c].profile).total

\* C7: under the profile with no axis set every row of the catalog scores 0
\* in total and in each breakdown entry, and a call with limit N >= 0 returns
\* the first min(N, size) rows in the order they were fetched.
C7_EmptyProfileKeepsFetchOrder ==
    \A c \in DOMAIN calls :
        (Done(c) /\ calls[c].profile = EmptyProfile) =>
            /\ \A k \in 1..Len(catalog) :
                  LET r == scoreVehicle(catalog[k], calls[c].profile)
                  IN /\ r.total = 0
                     /\ \A axis \in DOMAIN r.breakdown : r.breakdown[axis] = 0
            /\ \A i \in 1..Len(calls[c].scored) :
                  /\ calls[c].scored[i].score = 0
                  /\ \A axis \in DOMAIN calls[c].scored[i].scoreBreakdown :
                        calls[c].scored[i].scoreBreakdown[axis] = 0
            /\ limitOf(c) >= 0 =>
                  [i \in 1..Len(calls[c].scored) |-> calls[c].scored[i].vehicle]
                      = SubSeq(calls[c].vehicles, 1,
                               Min2(limitOf(c), Len(calls[c].vehicles)))

\* C7 happens: an empty-profile call over rows that differ, fetched in
\* another order than they are stored, returned some but not all of them.
C7_Witness ==
    \E c \in DOMAIN calls :
        /\ Done(c)
        /\ calls[c].profile = EmptyProfile
        /\ Len(calls[c].scored) >= 2
        /\ Len(calls[c].scored) < Len(catalog)
        /\ calls[c].vehicles # catalog
        /\ calls[c].scored[1].vehicle.msrpMax # calls[c].scored[2].vehicle.msrpMax

\* C8: rows with equal total score keep the order in which they were
\* fetched: of two returned rows with equal score the one fetched first comes
\* first, and a row left out is never fetched ahead of a returned row of
\* equal score.
C8_TiesInFetchOrder ==
    \A c \in DOMAIN calls :
        Done(c) =>
            LET out == calls[c].scored
            IN /\ \A i, j \in 1..Len(out) :
                     (i < j /\ out[i].score = out[j].score) =>
                        fetchPosition(c, out[i].vehicle.id)
                            < fetchPosition(c, out[j].vehicle.id)
               /\ \A i \in 1..Len(out), k \in 1..Len(calls[c].vehicles) :
                     (/\ calls[c].vehicles[k].id \notin returnedIds(c)
                      /\ scoreVehicle(calls[c].vehicles[k], calls[c].profile).total
                             = out[i].score) =>
                        fetchPosition(c, out[i].vehicle.id) < k

\* C8 happens: under a profile that sets axes, two rows with equal score
\* were returned behind a row that was fetched after both of them.
C8_Witness ==
    \E c \in DOMAIN calls :
        /\ Done(c)
        /\ calls[c].profile # EmptyProfile
        /\ Len(calls[c].scored) >= 3
        /\ calls[c].scored[2].score = calls[c].scored[3].score
        /\ calls[c].scored[1].score > calls[c].scored[2].score
        /\ fetchPosition(c, calls[c].scored[1].vehicle.id) = 3

\* C9: a call with an integer limit N >= 0 returns exactly min(N, size of
\* the catalog) rows: never more than N, at least one when N >= 1 and the
\* catalog is not empty, and all of a catalog smaller than N.
C9_LengthIsMinOfLimitAndSize ==
    \A c \in DOMAIN calls :
        (Done(c) /\ limitOf(c) >= 0) =>
            /\ Len(calls[c].scored) = Min2(limitOf(c), Len(catalog))
            /\ Len(calls[c].scored) <= limitOf(c)
            /\ (limitOf(c) >= 1 /\ Len(catalog) >= 1) => Len(calls[c].scored) >= 1

\* C9 happens: a call whose explicit limit exceeds the size of a catalog
\* that is not empty returned every row.
C9_Witness ==
    \E c \in DOMAIN calls :
        /\ Done(c)
        /\ calls[c].limit # Nil
        /\ limitOf(c) > Len(catalog)
        /\ Len(catalog) >= 2
        /\ Len(calls[c].scored) = Len(catalog)

---------------------------------------------------------------------------
(* SpecSafety: one caller scores one row on the safety axis alone, for     *)
(* every IIHS flag, NHTSA rating (or none), number of notable features,    *)
(* level and priority.                                                     *)

Ratings == {Nil} \cup {Some(r) : r \in 1..5}

SafetyVehicles ==
    {Vehicle(17000, 19000, iihs, nhtsa, n, {}, {}) :
        iihs \in BOOLEAN, nhtsa \in Ratings, n \in 0..MaxNotable}

SafetyProfiles ==
    {PreferenceProfile(Nil, Some(SafetyPreference(level, p)), Nil, Nil) :
        level \in SafetyLevel, p \in Priorities}

InitSafety ==
    /\ catalog \in Catalogs(SafetyVehicles, {1})
    /\ calls = [c \in {1} |-> IdleCall]
    /\ page = IdlePage

NextSafety ==
    \/ \E profile \in SafetyProfiles : Invoke(1, profile, Nil)
    \/ Fetch(1)
    \/ Rank(1)

SpecSafety == InitSafety /\ [][NextSafety]_vars

\* the rows a finished call returned under a safety preference
SafetyScored(c) ==
    IF Done(c) /\ calls[c].profile.safety # Nil THEN Range(calls[c].scored) ELSE {}

\* C2, as claimed: for a row without the IIHS pick and a priority in 1..5,
\* the safety score at level max is strictly lower than the safety score of
\* the same row at level baseline with the same priority.
C2_MaxStrictlyBelowBaseline ==
    \A c \in DOMAIN calls : \A r \in SafetyScored(c) :
        LET pref == calls[c].profile.safety[1]
        IN (/\ pref.level = "max"
            /\ pref.priority # Nil
            /\ ~r.vehicle.safetyIihsTopSafetyPick) =>
               r.scoreBreakdown.safety
                   < scoreSafety(r.vehicle, Some(SafetyPreference("baseline", pref.priority)))

\* C2, amended: for a row without the IIHS pick the safety score at level
\* max is never higher than at level baseline with the same priority, and it
\* is strictly lower unless the row has an NHTSA rating of 5 and at least 3
\* notable features, where the two scores are equal.
C2_MaxAtMostBaseline ==
    \A c \in DOMAIN calls : \A r \in SafetyScored(c) :
        LET pref == calls[c].profile.safety[1]
            atBaseline == scoreSafety(r.vehicle,
                                      Some(SafetyPreference("baseline", pref.priority)))
            fiveStars == OrElse(r.vehicle.safetyNhtsaOverall, 0) >= 5
            threeFeatures == Len(r.vehicle.safetyNotableFeatures) >= 3
        IN (pref.level = "max" /\ ~r.vehicle.safetyIihsTopSafetyPick) =>
               /\ r.scoreBreakdown.safety <= atBaseline
               /\ (r.scoreBreakdown.safety = atBaseline) <=> (fiveStars /\ threeFeatures)

\* C2 happens: a call at level max scored a row without the IIHS pick
\* strictly below what baseline gives it.
C2_Witness ==
    \E c \in DOMAIN calls : \E r \in SafetyScored(c) :
        /\ calls[c].profile.safety[1].level = "max"
        /\ ~r.vehicle.safetyIihsTopSafetyPick
        /\ r.vehicle.safetyNhtsaOverall = Some(5)
        /\ r.scoreBreakdown.safety
               < scoreSafety(r.vehicle,
                             Some(SafetyPreference("baseline",
                                                   calls[c].profile.safety[1].priority)))

\* what missing the IIHS pick contributes at a level, weighted
iihsMiss(level, priority) == weight(Num(iihsPoints(level, FALSE)), priority)

\* what a rating that misses the level's threshold contributes, weighted
nhtsaMiss(level, nhtsa, priority) == weight(Num(nhtsaPoints(level, nhtsa)), priority)

\* C3, as claimed: the contribution of a missing IIHS pick, and likewise
\* the contribution of a rating below the level's NHTSA threshold, is
\* strictly lower at advanced than at baseline and strictly lower at max
\* than at advanced.
C3_PenaltiesHarsherByTier ==
    \A c \in DOMAIN calls : \A r \in SafetyScored(c) :
        LET p == calls[c].profile.safety[1].priority
            nhtsa == OrElse(r.vehicle.safetyNhtsaOverall, 0)
        IN /\ ~r.vehicle.safetyIihsTopSafetyPick =>
                 /\ iihsMiss("advanced", p) < iihsMiss("baseline", p)
                 /\ iihsMiss("max", p) < iihsMiss("advanced", p)
           /\ nhtsa < 4 =>
                 nhtsaMiss("advanced", nhtsa, p) < nhtsaMiss("baseline", nhtsa, p)
           /\ nhtsa < 5 =>
                 nhtsaMiss("max", nhtsa, p) < nhtsaMiss("advanced", nhtsa, p)

\* C3, amended: the contribution of a missing IIHS pick is strictly lower
\* at advanced than at baseline and strictly lower at max than at advanced.
\* The contribution of a rating below the NHTSA threshold is strictly lower
\* at max than at baseline and at advanced, but advanced charges a missed
\* threshold nothing (0), which is higher than what baseline charges (-2).
C3_PenaltiesByTier ==
    \A c \in DOMAIN calls : \A r \in SafetyScored(c) :
        LET p == calls[c].profile.safety[1].priority
            nhtsa == OrElse(r.vehicle.safetyNhtsaOverall, 0)
        IN /\ ~r.vehicle.safetyIihsTopSafetyPick =>
                 /\ iihsMiss("advanced", p) < iihsMiss("baseline", p)
                 /\ iihsMiss("max", p) < iihsMiss("advanced", p)
           /\ nhtsa < 4 =>
                 /\ nhtsaMiss("max", nhtsa, p) < nhtsaMiss("baseline", nhtsa, p)
                 /\ nhtsaMiss("baseline", nhtsa, p) < nhtsaMiss("advanced", nhtsa, p)
                 /\ nhtsaMiss("advanced", nhtsa, p) = 0
           /\ nhtsa < 5 =>
                 nhtsaMiss("max", nhtsa, p) < nhtsaMiss("advanced", nhtsa, p)

\* C3 happens: a call at level advanced scored a row that has neither the
\* IIHS pick nor a rating of 4, and the score is what the two misses and the
\* features add up to.
C3_Witness ==
    \E c \in DOMAIN calls : \E r \in SafetyScored(c) :
        /\ calls[c].profile.safety[1].level = "advanced"
        /\ ~r.vehicle.safetyIihsTopSafetyPick
        /\ OrElse(r.vehicle.safetyNhtsaOverall, 0) < 4
        /\ Len(r.vehicle.safetyNotableFeatures) >= 2
        /\ r.scoreBreakdown.safety
               = iihsMiss("advanced", calls[c].profile.safety[1].priority)
                 + weight(Num(3), calls[c].profile.safety[1].priority)

---------------------------------------------------------------------------
(* SpecBudget: one caller scores one row on the budget axis alone, for     *)
(* prices on and next to every threshold.                                  *)

Msrp == {15999, 16000, 17999, 18000, 19000, 20000, 20001, 22500, 22501, 25000}

BudgetVehicles ==
    {Vehicle(range[1], range[2], TRUE, Some(5), 3, {}, {}) :
        range \in {pair \in Msrp \X Msrp : pair[1] <= pair[2]}}

BudgetProfiles ==
    {PreferenceProfile(Some(BudgetPreference(min, max, p)), Nil, Nil, Nil) :
        min \in {Nil, Some(0), Some(18000), Some(21000)},
        max \in {Nil, Some(18000), Some(20000)},
        p \in Priorities}
    \cup {EmptyProfile}

InitBudget ==
    /\ catalog \in Catalogs(BudgetVehicles, {1})
    /\ calls = [c \in {1} |-> IdleCall]
    /\ page = IdlePage

NextBudget ==
    \/ \E profile \in BudgetProfiles : Invoke(1, profile, Nil)
    \/ Fetch(1)
    \/ Rank(1)

SpecBudget == InitBudget /\ [][NextBudget]_vars

\* the rows a finished call returned under a budget preference
BudgetScored(c) ==
    IF Done(c) /\ calls[c].profile.budget # Nil THEN Range(calls[c].scored) ELSE {}

\* C4: under a fixed budget preference, a row that differs from a scored
\* row only by a strictly greater msrpMax never gets a higher budget score.
C4_BudgetNonIncreasingInMsrpMax ==
    \A c \in DOMAIN calls : \A r \in BudgetScored(c) :
        \A hi \in Msrp :
            hi > r.vehicle.msrpMax =>
                scoreBudget([r.vehicle EXCEPT !.msrpMax = hi], calls[c].profile.budget)
                    <= r.scoreBreakdown.budget

\* C4 happens: a call with a ceiling and a floor scored a row priced inside
\* the tolerance band above the ceiling, which scores strictly below a
\* cheaper row and strictly above a pricier one.
C4_Witness ==
    \E c \in DOMAIN calls : \E r \in BudgetScored(c) :
        LET pref == calls[c].profile.budget
        IN /\ pref[1].max # Nil
           /\ OrElse(pref[1].min, 0) > 0
           /\ r.vehicle.msrpMax > pref[1].max[1]
           /\ \E lo, hi \in Msrp :
                 /\ r.vehicle.msrpMin <= lo /\ lo < r.vehicle.msrpMax /\ r.vehicle.msrpMax < hi
                 /\ scoreBudget([r.vehicle EXCEPT !.msrpMax = lo], pref)
                        > r.scoreBreakdown.budget
                 /\ scoreBudget([r.vehicle EXCEPT !.msrpMax = hi], pref)
                        < r.scoreBreakdown.budget

---------------------------------------------------------------------------
(* SpecTags: one caller scores one row on one tag axis alone, for every    *)
(* set of row tags and every list of requested tags up to MaxPrefTags,     *)
(* repeats included.                                                       *)

\* the extras tag a row of the pool carries along with a fit tag
PairedExtra(tag) ==
    CASE tag = "DAILY_COMMUTE" -> "AMERICAN_MADE"
      [] tag = "SHARED_FAMILY" -> "BRIGHT_COLOR"
      [] tag = "WEEKEND_ADVENTURE" -> "HIGHER_SEATING"
      [] tag = "ECO_CONSCIOUS" -> "ECO_CONSCIOUS"

\* every set of fit tags, each row with as many extras tags
TagVehicles ==
    {Vehicle(17000, 19000, TRUE, Some(5), 3, fit, {PairedExtra(t) : t \in fit}) :
        fit \in SUBSET FitTag}

TagLists(tags) == UNION {[1..n -> tags] : n \in 0..MaxPrefTags}

TagProfiles ==
    {PreferenceProfile(Nil, Nil, Some(TagPreference(tags, p)), Nil) :
        tags \in TagLists(FitTag), p \in Priorities}
    \cup {PreferenceProfile(Nil, Nil, Nil, Some(TagPreference(tags, p))) :
        tags \in TagLists(ExtrasTag), p \in Priorities}

InitTags ==
    /\ catalog \in Catalogs(TagVehicles, {1})
    /\ calls = [c \in {1} |-> IdleCall]
    /\ page = IdlePage

NextTags ==
    \/ \E profile \in TagProfiles : Invoke(1, profile, Nil)
    \/ Fetch(1)
    \/ Rank(1)

SpecTags == InitTags /\ [][NextTags]_vars

\* the tag axes: the preference, the row's tags, the enumeration, the weight
TagAxes == {"usage", "extras"}

axisTags(vehicle, axis) == IF axis = "usage" THEN vehicle.fitTags ELSE vehicle.extrasTags

axisEnum(axis) == IF axis = "usage" THEN FitTag ELSE ExtrasTag

axisWeight(axis) == IF axis = "usage" THEN 4 ELSE 2

\* C5: on a tag axis whose preference requests at least one tag, a row
\* sharing no tag with the preference scores exactly -3 x priority (the
\* default priority 3 when none is given), and a row holding every
\* requested tag scores strictly higher than any row that holds some but
\* not all of them.
C5_FlatPenaltyAndFullMatchFirst ==
    \A c \in DOMAIN calls : \A axis \in TagAxes :
        (Done(c) /\ calls[c].profile[axis] # Nil) =>
            \A r \in Range(calls[c].scored) :
                LET pref == calls[c].profile[axis]
                    requested == Range(pref[1].tags)
                    mine == axisTags(r.vehicle, axis)
                IN requested # {} =>
                     /\ mine \cap requested = {} =>
                           r.scoreBreakdown[axis]
                               = Num(-3 * (IF pref[1].priority = Nil THEN 3
                                           ELSE pref[1].priority[1]))
                     /\ requested \subseteq mine =>
                           \A other \in SUBSET axisEnum(axis) :
                               (/\ other \cap requested # {}
                                /\ ~(requested \subseteq other)) =>
                                   scoreTags(other, pref, axisWeight(axis))
                                       < r.scoreBreakdown[axis]

\* C5 happens: a call whose preference lists three tags, one of them
\* twice, scored a row that holds both requested tags and one more.
C5_Witness ==
    \E c \in DOMAIN calls : \E axis \in TagAxes : \E r \in Range(calls[c].scored) :
        /\ Done(c)
        /\ calls[c].profile[axis] # Nil
        /\ Len(calls[c].profile[axis][1].tags) = 3
        /\ Cardinality(Range(calls[c].profile[axis][1].tags)) = 2
        /\ Range(calls[c].profile[axis][1].tags) \subseteq axisTags(r.vehicle, axis)
        /\ Cardinality(axisTags(r.vehicle, axis)) = 3

---------------------------------------------------------------------------
(* SpecScenario: a catalog of two rows, one within the ceiling that meets  *)
(* every max-tier safety criterion and one far over the ceiling that meets *)
(* none, stored in either order, ranked under a budget ceiling of 20000    *)
(* and safety level max with every pair of priorities.                     *)

WithinAndSafe ==
    {Vehicle(17000, hi, TRUE, Some(5), n, {"DAILY_COMMUTE"}, {}) :
        hi \in {18000, 19000, 20000}, n \in 3..MaxNotable}

OverAndUnsafe ==
    {Vehicle(21000, hi, FALSE, nhtsa, n, {"SHARED_FAMILY"}, {"BRIGHT_COLOR"}) :
        hi \in {22501, 25000}, nhtsa \in {Nil, Some(3), Some(4)}, n \in {0, 2}}

ScenarioCatalogs ==
    {<<WithId(a, 1), WithId(b, 2)>> : a \in WithinAndSafe, b \in OverAndUnsafe}
    \cup {<<WithId(b, 1), WithId(a, 2)>> : a \in WithinAndSafe, b \in OverAndUnsafe}

ScenarioProfiles ==
    {PreferenceProfile(Some(BudgetPreference(Nil, Some(20000), Some(pb))),
                       Some(SafetyPreference("max", Some(ps))), Nil, Nil) :
        pb \in 1..5, ps \in 1..5}

InitScenario ==
    /\ catalog \in ScenarioCatalogs
    /\ calls = [c \in {1} |-> IdleCall]
    /\ page = IdlePage

NextScenario ==
    \/ \E profile \in ScenarioProfiles : Invoke(1, profile, Nil)
    \/ Fetch(1)
    \/ Rank(1)

SpecScenario == InitScenario /\ [][NextScenario]_vars

\* a row within the ceiling that meets every criterion of level max
withinAndMeetsAll(vehicle, max) ==
    /\ vehicle.msrpMax <= max
    /\ vehicle.safetyIihsTopSafetyPick
    /\ OrElse(vehicle.safetyNhtsaOverall, 0) >= 5
    /\ Len(vehicle.safetyNotableFeatures) >= 3

\* a row more than 2500 over the ceiling that meets no criterion of level max
overAndMeetsNone(vehicle, max) ==
    /\ vehicle.msrpMax > max + 2500
    /\ ~vehicle.safetyIihsTopSafetyPick
    /\ OrElse(vehicle.safetyNhtsaOverall, 0) < 5
    /\ Len(vehicle.safetyNotableFeatures) < 3

\* vehicle A and vehicle B of the scenario, and its profile
isVehicleA(vehicle) ==
    /\ vehicle.msrpMax = 19000 /\ vehicle.safetyIihsTopSafetyPick
    /\ vehicle.safetyNhtsaOverall = Some(5) /\ Len(vehicle.safetyNotableFeatures) = 3

isVehicleB(vehicle) ==
    /\ vehicle.msrpMax = 25000 /\ ~vehicle.safetyIihsTopSafetyPick
    /\ vehicle.safetyNhtsaOverall = Some(3) /\ Len(vehicle.safetyNotableFeatures) = 0

isScenarioProfile(profile) ==
    /\ profile.budget = Some(BudgetPreference(Nil, Some(20000), Some(5)))
    /\ profile.safety = Some(SafetyPreference("max", Some(4)))

\* C6: under a budget ceiling and safety level max, with any priorities in
\* 1..5, a row within the ceiling that meets every max-tier criterion has a
\* positive total, a row more than 2500 over the ceiling that meets none has
\* a negative total, and the first is returned ahead of the second; under
\* {budget: {max: 20000, priority: 5}, safety: {level: max, priority: 4}}
\* vehicle A totals 102 and vehicle B totals -78.
C6_SafeAffordableOutranks ==
    \A c \in DOMAIN calls :
        (/\ Done(c)
         /\ calls[c].profile.budget # Nil
         /\ calls[c].profile.safety # Nil) =>
            LET out == calls[c].scored
                max == calls[c].profile.budget[1].max[1]
            IN \A i, j \in 1..Len(out) :
                  (/\ withinAndMeetsAll(out[i].vehicle, max)
                   /\ overAndMeetsNone(out[j].vehicle, max)) =>
                      /\ out[i].score > 0
                      /\ out[j].score < 0
                      /\ i < j
                      /\ (/\ isScenarioProfile(calls[c].profile)
                          /\ isVehicleA(out[i].vehicle)
                          /\ isVehicleB(out[j].vehicle)) =>
                             (out[i].score = Num(102) /\ out[j].score = Num(-78))

\* C6 happens: under the scenario's profile, vehicle B was fetched ahead of
\* vehicle A and A was returned first.
C6_Witness ==
    \E c \in DOMAIN calls :
        /\ Done(c)
        /\ isScenarioProfile(calls[c].profile)
        /\ Len(calls[c].scored) = 2
        /\ isVehicleB(calls[c].vehicles[1])
        /\ isVehicleA(calls[c].vehicles[2])
        /\ isVehicleA(calls[c].scored[1].vehicle)
        /\ isVehicleB(calls[c].scored[2].vehicle)

---------------------------------------------------------------------------
(* SpecConcurrent: MaxCalls callers invoke getTopVehicles at any time,     *)
(* each awaiting its own catalog read, while the NHTSA import writes       *)
(* ratings into the Vehicle table.                                         *)

ConcurrentCatalog ==
    <<WithId(Vehicle(17000, 19000, FALSE, Nil, 1, {"DAILY_COMMUTE"}, {}), 1),
      WithId(Vehicle(17000, 19000, TRUE, Some(3), 1, {}, {}), 2)>>

ConcurrentProfiles ==
    {PreferenceProfile(Nil, Some(SafetyPreference("baseline", Nil)), Nil, Nil),
     PreferenceProfile(Nil, Nil, Some(TagPreference(<<"DAILY_COMMUTE">>, Some(5))), Nil)}

\* the overall ratings the import may write
ImportedRatings == {Some(5)}

\* updateVehicleFromNhtsa: prisma.vehicle.update sets safetyNhtsaOverall
UpdateNhtsa(k, overall) ==
    /\ k \in 1..Len(catalog)
    /\ catalog[k].safetyNhtsaOverall # overall
    /\ catalog' = [catalog EXCEPT ![k].safetyNhtsaOverall = overall]
    /\ UNCHANGED <<calls, page>>

InitConcurrent ==
    /\ catalog = ConcurrentCatalog
    /\ calls = [c \in CallIds |-> IdleCall]
    /\ page = IdlePage

NextConcurrent ==
    \/ \E c \in CallIds, profile \in ConcurrentProfiles : Invoke(c, profile, Nil)
    \/ \E c \in CallIds : Fetch(c)
    \/ \E c \in CallIds : Rank(c)
    \/ \E k \in 1..Len(catalog), overall \in ImportedRatings : UpdateNhtsa(k, overall)

SpecConcurrent == InitConcurrent /\ [][NextConcurrent]_vars

---------------------------------------------------------------------------
(* Values that arrive as JSON: request bodies and raw answer records.      *)
(* A text is the sequence of its characters, so that trim, parseInt and    *)
(* toLowerCase are computed; a key (a questionId, an option value, a tag)  *)
(* is only ever compared or looked up and stays an atom.                   *)

JsValue(type, text, num, items) ==
    [type |-> type, text |-> text, num |-> num, items |-> items]

JsUndefined == JsValue("undefined", <<>>, 0, <<>>)

JsNull == JsValue("null", <<>>, 0, <<>>)

JsTrue == JsValue("boolean", <<>>, 1, <<>>)

JsString(text) == JsValue("string", text, 0, <<>>)

JsNumber(num) == JsValue("number", <<>>, num, <<>>)

JsArray(items) == JsValue("array", <<>>, 0, items)

\* value === undefined || value === null
IsNullish(value) == value.type \in {"undefined", "null"}

\* WhiteSpace and LineTerminator code points that occur in the inputs
WhiteSpace == {" ", "\t", "\n"}

RECURSIVE trimStart(_)
trimStart(text) ==
    IF text # <<>> /\ Head(text) \in WhiteSpace THEN trimStart(Tail(text)) ELSE text

RECURSIVE trimEnd(_)
trimEnd(text) ==
    IF text # <<>> /\ text[Len(text)] \in WhiteSpace
    THEN trimEnd(SubSeq(text, 1, Len(text) - 1))
    ELSE text

\* String.prototype.trim
trim(text) == trimEnd(trimStart(text))

Digits == <<"0", "1", "2", "3", "4", "5", "6", "7", "8", "9">>

IsDigit(ch) == \E i \in 1..Len(Digits) : Digits[i] = ch

DigitValue(ch) == (CHOOSE i \in 1..Len(Digits) : Digits[i] = ch) - 1

\* the longest prefix of digits
RECURSIVE digitPrefix(_)
digitPrefix(text) ==
    IF text # <<>> /\ IsDigit(Head(text))
    THEN <<Head(text)>> \o digitPrefix(Tail(text))
    ELSE <<>>

RECURSIVE decimalValue(_)
decimalValue(digits) ==
    IF digits = <<>> THEN 0
    ELSE 10 * decimalValue(SubSeq(digits, 1, Len(digits) - 1))
         + DigitValue(digits[Len(digits)])

\* Number.parseInt(text, 10): leading white space and one sign are skipped,
\* the longest prefix of digits is the value, whatever follows is ignored;
\* Nil is NaN.
parseInt(text) ==
    LET stripped == trimStart(text)
        signed == stripped # <<>> /\ Head(stripped) \in {"+", "-"}
        digits == digitPrefix(IF signed THEN Tail(stripped) ELSE stripped)
    IN IF digits = <<>> THEN Nil
       ELSE IF signed /\ Head(stripped) = "-"
            THEN Some(0 - decimalValue(digits))
            ELSE Some(decimalValue(digits))

---------------------------------------------------------------------------
(* The preference normalizer: preferences.ts lines 13-176 *)

\* One element of the preferences array: an IncomingPreference object, or
\* null.  priority is Nil when the record has none; selectedValues and
\* notes are whatever JSON value the client sent.
AnswerRecord(questionId, priority, selectedValues, notes) ==
    [type |-> "object", questionId |-> questionId, priority |-> priority,
     selectedValues |-> selectedValues, notes |-> notes]

NullRecord ==
    [type |-> "null", questionId |-> "", priority |-> Nil,
     selectedValues |-> JsUndefined, notes |-> JsUndefined]

\* A lookup table is an object literal: a function from its own keys to
\* its entries.  (Summaries are abbreviated.)
BUDGET_MAP ==
    [value \in {"value", "cpo-balance", "premium"} |->
        CASE value = "value" ->
                [range |-> [min |-> 0, max |-> 20000], summary |-> "Value-first approach"]
          [] value = "cpo-balance" ->
                [range |-> [min |-> 18000, max |-> 32000], summary |-> "Certified/near-new sweet spot"]
          [] value = "premium" ->
                [range |-> [min |-> 28000, max |-> 50000], summary |-> "Premium investment"]]

SAFETY_MAP ==
    [value \in {"baseline-safety", "advanced-adas", "max-safety"} |->
        CASE value = "baseline-safety" ->
                [level |-> "baseline", summary |-> "Baseline protections"]
          [] value = "advanced-adas" ->
                [level |-> "advanced", summary |-> "Advanced driver assistance"]
          [] value = "max-safety" ->
                [level |-> "max", summary |-> "Maximum assurance"]]

USAGE_MAP ==
    [value \in {"daily-commute", "shared-family", "adventure"} |->
        CASE value = "daily-commute" ->
                [tag |-> "DAILY_COMMUTE", summary |-> "Daily commuting & errands focus."]
          [] value = "shared-family" ->
                [tag |-> "SHARED_FAMILY", summary |-> "Shared family duty"]
          [] value = "adventure" ->
                [tag |-> "WEEKEND_ADVENTURE", summary |-> "Weekend adventures"]]

EXTRAS_MAP ==
    [value \in {"american-made", "bright-color", "eco-conscious", "higher-seating"} |->
        CASE value = "american-made" ->
                [tag |-> "AMERICAN_MADE", label |-> "American-made preference"]
          [] value = "bright-color" ->
                [tag |-> "BRIGHT_COLOR", label |-> "High-visibility exterior colour"]
          [] value = "eco-conscious" ->
                [tag |-> "ECO_CONSCIOUS", label |-> "Eco-conscious / efficiency focus"]
          [] value = "higher-seating" ->
                [tag |-> "HIGHER_SEATING", label |-> "Higher seating position"]]

TECH_MAP ==
    [value \in {"core-connectivity", "monitoring-suite", "premium-tech"} |->
        CASE value = "core-connectivity" -> [text |-> "Core connectivity"]
          [] value = "monitoring-suite" -> [text |-> "Teen monitoring suite"]
          [] value = "premium-tech" -> [text |-> "Premium tech package"]]

TIMELINE_MAP ==
    [value \in {"two-weeks", "month", "researching"} |->
        CASE value = "two-weeks" -> [text |-> "Needs a ready-to-drive option"]
          [] value = "month" -> [text |-> "Aims to finalise"]
          [] value = "researching" -> [text |-> "Still researching"]]

\* The properties every object literal inherits from Object.prototype.
ObjectPrototypeKeys ==
    {"constructor", "hasOwnProperty", "isPrototypeOf", "propertyIsEnumerable",
     "toLocaleString", "toString", "valueOf", "__proto__"}

\* what an inherited property holds: a function (or the prototype), an
\* object with none of the properties of a table entry
InheritedMember(key) == [name |-> key]

\* MAP[key]: the own entry, else the inherited property, else undefined
lookup(map, key) ==
    IF key \in DOMAIN map THEN Some(map[key])
    ELSE IF key \in ObjectPrototypeKeys THEN Some(InheritedMember(key))
    ELSE Nil

\* object.property, undefined when the object has no such property
Member(object, property) ==
    IF property \in DOMAIN object THEN Some(object[property]) ELSE Nil

\* undefined where the profile holds a key (a level or a tag); no level
\* and no tag of a vehicle equals it
UndefinedKey == "undefined"

\* pref?.priority ?? DEFAULT_PRIORITY  (the DEFAULT_PRIORITY of line 13 is 3
\* as well)
getPriority(pref) == IF pref = Nil THEN DEFAULT_PRIORITY
                     ELSE OrElse(pref[1].priority, DEFAULT_PRIORITY)

\* where preferences.find(...) stops: at the first element that is null,
\* on which reading .questionId throws, or that has the questionId; 0 when
\* it runs off the end
findStop(preferences, id) ==
    LET stops == {i \in 1..Len(preferences) :
                     \/ preferences[i].type = "null"
                     \/ preferences[i].questionId = id}
    IN IF stops = {} THEN 0
       ELSE CHOOSE i \in stops : \A j \in stops : i <= j

findThrows(preferences, id) ==
    LET i == findStop(preferences, id)
    IN i # 0 /\ preferences[i].type = "null"

\* findPreference, when it does not throw
findPreference(preferences, id) ==
    LET i == findStop(preferences, id)
    IN IF i = 0 THEN Nil ELSE Some(preferences[i])

\* pref?.selectedValues?.[0]: the first element of an array, the first
\* character of a string, undefined of anything else
firstSelected(pref) ==
    IF pref = Nil THEN Nil
    ELSE LET values == pref[1].selectedValues
         IN CASE values.type = "array" ->
                    (IF values.items = <<>> THEN Nil ELSE Some(values.items[1]))
              [] values.type = "string" ->
                    (IF values.text = <<>> THEN Nil ELSE Some(values.text[1]))
              [] OTHER -> Nil

\* value ? MAP[value] : undefined, for the first selected value
entryOf(map, pref) ==
    LET value == firstSelected(pref)
    IN IF value # Nil /\ value[1] # "" THEN lookup(map, value[1]) ELSE Nil

\* extrasPref?.selectedValues ?? [] has no .map: a TypeError
extrasThrows(pref) ==
    pref # Nil /\ pref[1].selectedValues.type \notin {"undefined", "null", "array"}

\* extrasValues.map((value) => EXTRAS_MAP[value]).filter(Boolean)
extrasEntries(pref) ==
    IF pref = Nil \/ IsNullish(pref[1].selectedValues) THEN <<>>
    ELSE LET values == pref[1].selectedValues.items
             mapped == [i \in 1..Len(values) |-> lookup(EXTRAS_MAP, values[i])]
             kept == SelectSeq(mapped, LAMBDA entry : entry # Nil)
         IN [i \in 1..Len(kept) |-> kept[i][1]]

\* notesPref?.notes?.trim is not a function: a TypeError
notesThrows(pref) ==
    pref # Nil /\ pref[1].notes.type \notin {"undefined", "null", "string"}

\* Mutant of storedNotes: the text as supplied.
storedNotesVerbatim(text) == text

\* notesPref.notes.trim(), the text line 172 stores
storedNotes(text) == trim(text)

\* lines 171-173
notesOf(pref) ==
    IF pref = Nil \/ IsNullish(pref[1].notes) THEN Nil
    ELSE IF trim(pref[1].notes.text) # <<>>
         THEN Some(<<storedNotes(pref[1].notes.text)>>)
         ELSE Nil

\* AgentContext (agent.ts lines 14-22).  extrasSummary is the list of
\* labels that join(", ") strings together.
AgentContext(budgetSummary, safetySummary, usageSummary, extrasSummary, techPreference, timelineExpectation, notes) ==
    [budgetSummary |-> budgetSummary, safetySummary |-> safetySummary,
     usageSummary |-> usageSummary, extrasSummary |-> extrasSummary,
     techPreference |-> techPreference,
     timelineExpectation |-> timelineExpectation, notes |-> notes]

EmptyContext == AgentContext(Nil, Nil, Nil, Nil, Nil, Nil, Nil)

QuestionIds == <<"budget", "safety", "usage", "extras", "tech", "timeline", "notes">>

\* what a call of mapPreferencesToProfile ends in
Thrown == [thrown |-> TRUE, profile |-> EmptyProfile, context |-> EmptyContext]

Returned(profile, context) ==
    [thrown |-> FALSE, profile |-> profile, context |-> context]

\* lines 119-127
budgetAxis(pref) ==
    LET entry == entryOf(BUDGET_MAP, pref)
    IN IF entry = Nil THEN Nil
       ELSE LET range == Member(entry[1], "range")
            IN Some(BudgetPreference(
                        IF range = Nil THEN Nil ELSE Some(range[1].min),
                        IF range = Nil THEN Nil ELSE Some(range[1].max),
                        Some(getPriority(pref))))

\* lines 129-137
safetyAxis(pref) ==
    LET entry == entryOf(SAFETY_MAP, pref)
    IN IF entry = Nil THEN Nil
       ELSE Some(SafetyPreference(OrElse(Member(entry[1], "level"), UndefinedKey),
                                  Some(getPriority(pref))))

\* lines 139-147
usageAxis(pref) ==
    LET entry == entryOf(USAGE_MAP, pref)
    IN IF entry = Nil THEN Nil
       ELSE Some(TagPreference(<<OrElse(Member(entry[1], "tag"), UndefinedKey)>>,
                               Some(getPriority(pref))))

\* lines 149-159
extrasAxis(pref) ==
    LET entries == extrasEntries(pref)
    IN IF Len(entries) = 0 THEN Nil
       ELSE Some(TagPreference(
                    [i \in 1..Len(entries) |->
                        OrElse(Member(entries[i], "tag"), UndefinedKey)],
                    Some(getPriority(pref))))

\* the summary an axis leaves in the context
summaryOf(map, pref) ==
    LET entry == entryOf(map, pref)
    IN IF entry = Nil THEN Nil ELSE Member(entry[1], "summary")

extrasSummaryOf(pref) ==
    LET entries == extrasEntries(pref)
    IN IF Len(entries) = 0 THEN Nil
       ELSE Some([i \in 1..Len(entries) |->
                     OrElse(Member(entries[i], "label"), "")])

\* lines 161-169: context.x = MAP[value] when value and MAP[value] are truthy
textOf(map, pref) == entryOf(map, pref)

mapPreferencesToProfile(preferences) ==
    IF \E i \in 1..Len(QuestionIds) : findThrows(preferences, QuestionIds[i])
    THEN Thrown
    ELSE LET budgetPref == findPreference(preferences, "budget")
             safetyPref == findPreference(preferences, "safety")
             usagePref == findPreference(preferences, "usage")
             extrasPref == findPreference(preferences, "extras")
             techPref == findPreference(preferences, "tech")
             timelinePref == findPreference(preferences, "timeline")
             notesPref == findPreference(preferences, "notes")
         IN IF extrasThrows(extrasPref) \/ notesThrows(notesPref)
            THEN Thrown
            ELSE Returned(
                    PreferenceProfile(budgetAxis(budgetPref), safetyAxis(safetyPref),
                                      usageAxis(usagePref), extrasAxis(extrasPref)),
                    AgentContext(summaryOf(BUDGET_MAP, budgetPref),
                                 summaryOf(SAFETY_MAP, safetyPref),
                                 summaryOf(USAGE_MAP, usagePref),
                                 extrasSummaryOf(extrasPref),
                                 textOf(TECH_MAP, techPref),
                                 textOf(TIMELINE_MAP, timelinePref),
                                 notesOf(notesPref)))

---------------------------------------------------------------------------
(* Single-descriptor ranking: app/api/vehicle-ranking/route.ts lines 1-128 *)
(* and rankVehicleAgainstProfile.                                          *)

\* the columns of a row that the lookup by descriptor reads
Listed(v, make, model, years) ==
    [id |-> v.id, make |-> make, model |-> model, years |-> years,
     msrpMin |-> v.msrpMin, msrpMax |-> v.msrpMax,
     safetyIihsTopSafetyPick |-> v.safetyIihsTopSafetyPick,
     safetyNhtsaOverall |-> v.safetyNhtsaOverall,
     safetyNotableFeatures |-> v.safetyNotableFeatures,
     fitTags |-> v.fitTags, extrasTags |-> v.extrasTags]

\* body.vehicle when it is an object: { make, model, year }, each any JSON
\* value
VehicleInput(make, model, year) ==
    [type |-> "object", make |-> make, model |-> model, year |-> year]

\* body.vehicle when it is missing or null
NoVehicleInput(type) ==
    [type |-> type, make |-> JsUndefined, model |-> JsUndefined, year |-> JsUndefined]

\* the request body once parsed: { preferences, vehicle, leaderboardLimit }
RankingBody(preferences, vehicle, leaderboardLimit) ==
    [preferences |-> preferences, vehicle |-> vehicle,
     leaderboardLimit |-> leaderboardLimit]

Rejected(message) ==
    [error |-> Some(message), make |-> <<>>, model |-> <<>>, year |-> Nil]

VehicleDescriptor(make, model, year) ==
    [error |-> Nil, make |-> make, model |-> model, year |-> year]

\* the year of a descriptor: lines 36-50
parseYear(year) ==
    IF IsNullish(year) \/ (year.type = "string" /\ year.text = <<>>)
    THEN [error |-> Nil, year |-> Nil]
    ELSE IF year.type = "number" THEN [error |-> Nil, year |-> Some(year.num)]
    ELSE IF year.type = "string"
         THEN IF parseInt(year.text) # Nil
              THEN [error |-> Nil, year |-> parseInt(year.text)]
              ELSE [error |-> Some("Year must be a valid number."), year |-> Nil]
         ELSE [error |-> Some("Year must be a string or number value."), year |-> Nil]

\* parseDescriptor: a descriptor, or the message of the Error it throws
parseDescriptor(input) ==
    IF input.type # "object" THEN Rejected("Invalid vehicle descriptor.")
    ELSE IF input.make.type # "string" \/ trim(input.make.text) = <<>>
         THEN Rejected("Vehicle make is required.")
    ELSE IF input.model.type # "string" \/ trim(input.model.text) = <<>>
         THEN Rejected("Vehicle model is required.")
    ELSE IF parseYear(input.year).error # Nil
         THEN Rejected(parseYear(input.year).error[1])
    ELSE VehicleDescriptor(trim(input.make.text), trim(input.model.text),
                           parseYear(input.year).year)

\* Mutant of leaderboardSize: the caller's size is taken as it is.
leaderboardSizeUncapped(limit) ==
    IF limit.type = "number" /\ limit.num > 0 THEN limit.num ELSE 5

\* lines 88-91
leaderboardSize(limit) ==
    IF limit.type = "number" /\ limit.num > 0 THEN Min2(limit.num, 10) ELSE 5

UpperCase == <<"A", "B", "C", "D", "E", "F", "G", "H", "I", "J", "K", "L", "M", "N", "O", "P", "Q", "R", "S", "T", "U", "V", "W", "X", "Y", "Z">>

LowerCase == <<"a", "b", "c", "d", "e", "f", "g", "h", "i", "j", "k", "l", "m", "n", "o", "p", "q", "r", "s", "t", "u", "v", "w", "x", "y", "z">>

\* String.prototype.toLowerCase on the letters A-Z
toLowerCase(text) ==
    [i \in 1..Len(text) |->
        IF \E k \in 1..Len(UpperCase) : UpperCase[k] = text[i]
        THEN LowerCase[CHOOSE k \in 1..Len(UpperCase) : UpperCase[k] = text[i]]
        ELSE text[i]]

\* a row matches the descriptor's make and model case-insensitively
matchesDescriptor(vehicle, descriptor) ==
    /\ toLowerCase(vehicle.make) = toLowerCase(descriptor.make)
    /\ toLowerCase(vehicle.model) = toLowerCase(descriptor.model)

\* yearExact: whether the row's years contain the requested year; without
\* a requested year it is true or left null
yearExactOf(year, years) ==
    IF year = Nil THEN {Nil, Some(TRUE)} ELSE {Some(year[1] \in Range(years))}

RankingResult(matched, rank, totalCompared, leaderboard, yearExact) ==
    [matched |-> matched, rank |-> rank, totalCompared |-> totalCompared,
     leaderboard |-> leaderboard, yearExact |-> yearExact]

\* rankVehicleAgainstProfile after its catalog read: the results it may
\* return.  The catalog is scored and sorted as getTopVehicles does; any
\* row of the descriptor's make and model may be the one located.
rankVehicleAgainstProfile(vehicles, profile, descriptor, size) ==
    LET sorted == sortByScore(mapScored(vehicles, profile))
        hits == {i \in 1..Len(sorted) : matchesDescriptor(sorted[i].vehicle, descriptor)}
        leaderboard == slice(sorted, size)
    IN IF hits = {}
       THEN {RankingResult(Nil, Nil, Len(sorted), leaderboard, Nil)}
       ELSE UNION {{RankingResult(Some(sorted[i]), Some(i), Len(sorted), leaderboard, exact) :
                      exact \in yearExactOf(descriptor.year, sorted[i].vehicle.years)} :
                   i \in hits}

\* toAgentVehicleCandidate, restricted to the identity and price of the row
toAgentVehicleCandidate(scored) ==
    [id |-> scored.vehicle.id,
     msrpRange |-> [min |-> scored.vehicle.msrpMin, max |-> scored.vehicle.msrpMax]]

ErrorResponse(status, message) ==
    [status |-> status, error |-> Some(message), match |-> Nil, rank |-> Nil,
     totalCompared |-> 0, leaderboard |-> <<>>, yearExact |-> Nil,
     availableYears |-> <<>>, message |-> ""]

\* Mutant of responsePayload: yearExact || null, which turns false into
\* null.
responsePayloadFalseAsNull(ranking, descriptor) ==
    [status |-> 200, error |-> Nil,
     match |-> IF ranking.matched # Nil
               THEN Some(toAgentVehicleCandidate(ranking.matched[1])) ELSE Nil,
     rank |-> ranking.rank,
     totalCompared |-> ranking.totalCompared,
     leaderboard |-> [i \in 1..Len(ranking.leaderboard) |->
                         toAgentVehicleCandidate(ranking.leaderboard[i])],
     yearExact |-> IF ranking.yearExact = Some(FALSE) THEN Nil ELSE ranking.yearExact,
     availableYears |-> IF ranking.matched # Nil
                        THEN ranking.matched[1].vehicle.years ELSE <<>>,
     message |-> IF ranking.matched # Nil
                 THEN (IF ranking.rank # Nil /\ ranking.rank # Some(0)
                       THEN "Ranked" ELSE "We evaluated this vehicle")
                 ELSE "We couldn't find"]

\* lines 99-115
responsePayload(ranking, descriptor) ==
    [status |-> 200, error |-> Nil,
     match |-> IF ranking.matched # Nil
               THEN Some(toAgentVehicleCandidate(ranking.matched[1])) ELSE Nil,
     rank |-> ranking.rank,
     totalCompared |-> ranking.totalCompared,
     leaderboard |-> [i \in 1..Len(ranking.leaderboard) |->
                         toAgentVehicleCandidate(ranking.leaderboard[i])],
     yearExact |-> ranking.yearExact,
     availableYears |-> IF ranking.matched # Nil
                        THEN ranking.matched[1].vehicle.years ELSE <<>>,
     message |-> IF ranking.matched # Nil
                 THEN (IF ranking.rank # Nil /\ ranking.rank # Some(0)
                       THEN "Ranked" ELSE "We evaluated this vehicle")
                 ELSE "We couldn't find"]

\* a request to POST /api/vehicle-ranking that has not arrived
IdleRequest ==
    [pc |-> "idle", body |-> RankingBody(JsUndefined, NoVehicleInput("undefined"), JsUndefined),
     profile |-> EmptyProfile, descriptor |-> Rejected(""), leaderboardSize |-> 0,
     vehicles |-> <<>>, ranking |-> Nil, response |-> Nil]

\* POST up to the call of rankVehicleAgainstProfile, which awaits the
\* catalog read (lines 59-97, 116-127)
Post(c, body) ==
    /\ calls[c].pc = "idle"
    /\ LET normalized == mapPreferencesToProfile(body.preferences.items)
           descriptor == parseDescriptor(body.vehicle)
           respond(response) ==
               calls' = [calls EXCEPT ![c] = [@ EXCEPT !.pc = "done", !.body = body,
                                                       !.response = Some(response)]]
       IN IF body.preferences.type # "array"
          THEN respond(ErrorResponse(400, "Invalid payload. Expected { preferences: [], vehicle: {} }."))
          ELSE IF normalized.thrown
          THEN respond(ErrorResponse(500, "TypeError"))
          ELSE IF descriptor.error # Nil
          THEN respond(ErrorResponse(400, descriptor.error[1]))
          ELSE calls' = [calls EXCEPT ![c] =
                            [@ EXCEPT !.pc = "await", !.body = body,
                                      !.profile = normalized.profile,
                                      !.descriptor = descriptor,
                                      !.leaderboardSize = leaderboardSize(body.leaderboardLimit)]]
    /\ UNCHANGED <<catalog, page>>

\* Mutant of Respond: a ranking without a match is answered as an error.
RespondNotFoundAsError(c) ==
    /\ calls[c].pc = "fetched"
    /\ \E ranking \in rankVehicleAgainstProfile(calls[c].vehicles, calls[c].profile,
                                                calls[c].descriptor, calls[c].leaderboardSize) :
          calls' = [calls EXCEPT ![c] =
                       [@ EXCEPT !.pc = "done", !.ranking = Some(ranking),
                                 !.response = Some(IF ranking.matched = Nil
                                                   THEN ErrorResponse(404, "Vehicle not found.")
                                                   ELSE responsePayload(ranking, calls[c].descriptor))]]
    /\ UNCHANGED <<catalog, page>>

\* rankVehicleAgainstProfile returns and POST answers (lines 93-115)
Respond(c) ==
    /\ calls[c].pc = "fetched"
    /\ \E ranking \in rankVehicleAgainstProfile(calls[c].vehicles, calls[c].profile,
                                                calls[c].descriptor, calls[c].leaderboardSize) :
          calls' = [calls EXCEPT ![c] =
                       [@ EXCEPT !.pc = "done", !.ranking = Some(ranking),
                                 !.response = Some(responsePayload(ranking, calls[c].descriptor))]]
    /\ UNCHANGED <<catalog, page>>

---------------------------------------------------------------------------
(* SpecRanking: one client posts a ranking request, of any shape, against  *)
(* every small catalog of named rows, two of them of the same make and     *)
(* model.                                                                  *)

RankingRows ==
    {[row |-> Vehicle(17000, 19000, TRUE, Some(5), 3, {"DAILY_COMMUTE"}, {}),
      make |-> <<"H", "o", "n", "d", "a">>, model |-> <<"C", "i", "v", "i", "c">>,
      years |-> <<2020, 2021>>],
     [row |-> Vehicle(23000, 25000, FALSE, Some(3), 0, {}, {}),
      make |-> <<"H", "o", "n", "d", "a">>, model |-> <<"C", "i", "v", "i", "c">>,
      years |-> <<2022>>],
     [row |-> Vehicle(17000, 19000, FALSE, Some(4), 1, {"SHARED_FAMILY"}, {}),
      make |-> <<"K", "i", "a">>, model |-> <<"R", "i", "o">>,
      years |-> <<2021>>],
     [row |-> Vehicle(21000, 22000, TRUE, Nil, 0, {}, {"ECO_CONSCIOUS"}),
      make |-> <<"T", "o", "y", "o", "t", "a">>, model |-> <<"Y", "a", "r", "i", "s">>,
      years |-> <<>>]}

\* the tables of up to MaxCatalog of these rows, each row at most once
RankingCatalogs ==
    UNION {{[i \in 1..k |-> Listed(WithId(f[i].row, i), f[i].make, f[i].model, f[i].years)] :
              f \in {g \in [1..k -> RankingRows] : \A i, j \in 1..k : g[i] = g[j] => i = j}} :
           k \in 0..MaxCatalog}

\* body.preferences: answer lists that normalize, one that holds null, one
\* whose extras values are a string, and a body without the array
RankingPreferences ==
    {JsArray(<<>>),
     JsArray(<<AnswerRecord("budget", Some(5), JsArray(<<"value">>), JsUndefined),
               AnswerRecord("safety", Some(4), JsArray(<<"max-safety">>), JsUndefined)>>),
     JsArray(<<AnswerRecord("usage", Nil, JsArray(<<"daily-commute">>), JsUndefined)>>),
     JsArray(<<NullRecord>>),
     JsArray(<<AnswerRecord("extras", Some(3), JsString(<<"e", "c", "o">>), JsUndefined)>>),
     JsUndefined}

MakeInputs ==
    {JsString(<<"h", "o", "n", "d", "a">>), JsString(<<" ", "H", "O", "N", "D", "A", " ">>),
     JsString(<<"F", "o", "r", "d">>), JsString(<<" ", "\t">>), JsNumber(7), JsUndefined}

ModelInputs ==
    {JsString(<<"C", "I", "V", "I", "C">>), JsString(<<"c", "i", "v", "i", "c", " ">>),
     JsString(<<>>), JsNull}

YearInputs ==
    {JsUndefined, JsNull, JsString(<<>>), JsNumber(2021), JsNumber(2099),
     JsString(<<"2", "0", "2", "2">>), JsString(<<" ", "2", "0", "9", "9">>),
     JsString(<<"2", "0", "2", "1", "a", "b", "c">>), JsString(<<"a", "b", "c">>),
     JsString(<<" ">>), JsTrue}

\* body.leaderboardLimit
LeaderboardLimits ==
    {JsUndefined, JsNull, JsString(<<"2">>)}
    \cup {JsNumber(n) : n \in (-1..MaxLimit) \cup {9, 10, 11}}

RankingBodies ==
    {RankingBody(preferences, VehicleInput(make, model, year), JsUndefined) :
        preferences \in {JsArray(<<>>)}, make \in MakeInputs, model \in ModelInputs,
        year \in YearInputs}
    \cup {RankingBody(preferences, vehicle, JsUndefined) :
            preferences \in RankingPreferences,
            vehicle \in {VehicleInput(JsString(<<"K", "I", "A">>),
                                      JsString(<<"r", "i", "o">>), JsNumber(2021)),
                         VehicleInput(JsString(<<"F", "o", "r", "d">>),
                                      JsString(<<"K", "a">>), JsUndefined),
                         NoVehicleInput("undefined"), NoVehicleInput("null")}}
    \cup {RankingBody(JsArray(<<AnswerRecord("budget", Some(5), JsArray(<<"value">>), JsUndefined)>>),
                      VehicleInput(make, JsString(<<"C", "I", "V", "I", "C">>), JsNumber(2099)),
                      limit) :
            make \in {JsString(<<"h", "o", "n", "d", "a">>), JsString(<<"F", "o", "r", "d">>)},
            limit \in LeaderboardLimits}

InitRanking ==
    /\ catalog \in RankingCatalogs
    /\ calls = [c \in {1} |-> IdleRequest]
    /\ page = IdlePage

NextRanking ==
    \/ \E body \in RankingBodies : Post(1, body)
    \/ Fetch(1)
    \/ Respond(1)

SpecRanking == InitRanking /\ [][NextRanking]_vars

---------------------------------------------------------------------------
(* Claims on single-descriptor ranking, under SpecRanking *)

\* the ranking a finished request got from rankVehicleAgainstProfile
Ranked(c) == Done(c) /\ calls[c].ranking # Nil

rankingOf(c) == calls[c].ranking[1]

responseOf(c) == calls[c].response[1]

\* the total score of a fetched row under the request's profile
totalOf(c, i) == scoreVehicle(calls[c].vehicles[i], calls[c].profile).total

\* the rows that a score-descending order with ties in fetch order puts
\* ahead of the row fetched at position i
aheadOf(c, i) ==
    {j \in 1..Len(calls[c].vehicles) :
        \/ totalOf(c, j) > totalOf(c, i)
        \/ totalOf(c, j) = totalOf(c, i) /\ j < i}

\* C11: when the ranking matched a row, that row has the descriptor's make
\* and model, its rank is one more than the number of rows of the whole
\* fetched catalog that score higher or score the same and were fetched
\* earlier, which is its position in the list getTopVehicles would return
\* for the whole catalog; totalCompared is the catalog size, the rank lies
\* in 1..totalCompared, and the response carries both.
C11_RankIsPositionInFullOrdering ==
    \A c \in DOMAIN calls :
        (Ranked(c) /\ rankingOf(c).matched # Nil) =>
            LET r == rankingOf(c)
                row == r.matched[1].vehicle
                i == fetchPosition(c, row.id)
                whole == rankVehicles(calls[c].vehicles, calls[c].profile,
                                      Some(Len(calls[c].vehicles)))
            IN /\ matchesDescriptor(row, calls[c].descriptor)
               /\ r.rank = Some(1 + Cardinality(aheadOf(c, i)))
               /\ whole[r.rank[1]].vehicle.id = row.id
               /\ r.totalCompared = Len(calls[c].vehicles)
               /\ r.totalCompared = Len(catalog)
               /\ 1 <= r.rank[1] /\ r.rank[1] <= r.totalCompared
               /\ responseOf(c).rank = r.rank
               /\ responseOf(c).totalCompared = r.totalCompared

\* C11 happens: in a catalog of MaxCatalog rows the matched row was fetched
\* first, is outscored by one row and ties with nothing, and ranks second
\* or lower.
C11_Witness ==
    \E c \in DOMAIN calls :
        /\ Ranked(c) /\ rankingOf(c).matched # Nil
        /\ Len(calls[c].vehicles) = MaxCatalog
        /\ fetchPosition(c, rankingOf(c).matched[1].vehicle.id) = 1
        /\ rankingOf(c).rank[1] >= 2
        /\ calls[c].profile # EmptyProfile

\* some fetched row has the descriptor's make and model
HasMakeAndModel(c) ==
    \E i \in 1..Len(calls[c].vehicles) :
        matchesDescriptor(calls[c].vehicles[i], calls[c].descriptor)

\* C12: a ranking for a descriptor whose make and model some row has
\* matches a row and ranks it whatever year was requested; when the
\* requested year is not among the matched row's years the ranking and
\* the response flag yearExact false, and the response carries the match,
\* its rank and the row's own years.
C12_YearMismatchStillMatches ==
    \A c \in DOMAIN calls :
        (Ranked(c) /\ HasMakeAndModel(c)) =>
            LET r == rankingOf(c)
                year == calls[c].descriptor.year
            IN /\ r.matched # Nil /\ r.rank # Nil
               /\ responseOf(c).status = 200
               /\ responseOf(c).match # Nil /\ responseOf(c).rank = r.rank
               /\ responseOf(c).availableYears = r.matched[1].vehicle.years
               /\ (year # Nil /\ year[1] \notin Range(r.matched[1].vehicle.years)) =>
                     /\ r.yearExact = Some(FALSE)
                     /\ responseOf(c).yearExact = Some(FALSE)

\* C12 happens: year 2099 was requested of a make and model whose row
\* lists other years, and the response names that row and its years.
C12_Witness ==
    \E c \in DOMAIN calls :
        /\ Ranked(c) /\ HasMakeAndModel(c)
        /\ calls[c].descriptor.year = Some(2099)
        /\ responseOf(c).match # Nil
        /\ responseOf(c).yearExact = Some(FALSE)
        /\ Len(responseOf(c).availableYears) = 2
        /\ 2099 \notin Range(responseOf(c).availableYears)

\* the entries of a list of scored rows or of candidates are the first
\* entries of the score-descending order of the fetched catalog, ties in
\* fetch order
IsTopOfRanking(c, ids) ==
    \A p \in 1..Len(ids) :
        Cardinality(aheadOf(c, fetchPosition(c, ids[p]))) = p - 1

C14_LeaderboardIsTopSlice ==
    \A c \in DOMAIN calls :
        Ranked(c) =>
            LET r == rankingOf(c)
                limit == calls[c].body.leaderboardLimit
                k == calls[c].leaderboardSize
                ids == [p \in 1..Len(r.leaderboard) |-> r.leaderboard[p].vehicle.id]
            IN /\ (limit.type # "number" \/ limit.num <= 0) => k = 5
               /\ (limit.type = "number" /\ limit.num > 0 /\ limit.num <= 10) => k = limit.num
               /\ (limit.type = "number" /\ limit.num > 10) => k = 10
               /\ Len(r.leaderboard) = Min2(k, r.totalCompared)
               /\ IsTopOfRanking(c, ids)
               /\ Len(responseOf(c).leaderboard) = Len(r.leaderboard)
               /\ \A p \in 1..Len(ids) : responseOf(c).leaderboard[p].id = ids[p]
               /\ r.matched # Nil =>
                     IF r.rank[1] <= Len(ids)
                     THEN ids[r.rank[1]] = r.matched[1].vehicle.id
                     ELSE r.matched[1].vehicle.id \notin Range(ids)

\* C14 happens: the caller asked for a leaderboard of one, the catalog has
\* MaxCatalog rows, and the matched row ranks below the leaderboard.
C14_Witness ==
    \E c \in DOMAIN calls :
        /\ Ranked(c)
        /\ calls[c].body.leaderboardLimit = JsNumber(1)
        /\ Len(calls[c].vehicles) = MaxCatalog
        /\ Len(responseOf(c).leaderboard) = 1
        /\ rankingOf(c).matched # Nil
        /\ rankingOf(c).rank[1] >= 2
        /\ responseOf(c).leaderboard[1].id # rankingOf(c).matched[1].vehicle.id

\* a text that is a number as a whole: digits, with at most a sign before
\* them and white space around them
IsNumericText(text) ==
    LET body == trim(text)
        unsigned == IF body # <<>> /\ Head(body) \in {"+", "-"} THEN Tail(body) ELSE body
    IN unsigned # <<>> /\ \A i \in 1..Len(unsigned) : IsDigit(unsigned[i])

\* a descriptor with a non-blank string make and model and a year that is
\* left out (undefined, null or the empty string) or numeric
IsWellFormedDescriptor(input) ==
    /\ input.type = "object"
    /\ input.make.type = "string" /\ trim(input.make.text) # <<>>
    /\ input.model.type = "string" /\ trim(input.model.text) # <<>>
    /\ \/ IsNullish(input.year)
       \/ input.year.type = "number"
       \/ input.year.type = "string"
          /\ (input.year.text = <<>> \/ IsNumericText(input.year.text))

\* C15: a received request whose descriptor is not well formed has been
\* answered with status 400 and a message and never got to
\* rankVehicleAgainstProfile; a received request with a well-formed
\* descriptor and a preferences array is in rankVehicleAgainstProfile or
\* has its ranking.
C15_MalformedRejectedWellFormedRanked ==
    \A c \in DOMAIN calls :
        calls[c].pc # "idle" =>
            /\ ~IsWellFormedDescriptor(calls[c].body.vehicle) =>
                  /\ Done(c) /\ calls[c].ranking = Nil
                  /\ responseOf(c).status = 400
                  /\ responseOf(c).error # Nil
            /\ (/\ IsWellFormedDescriptor(calls[c].body.vehicle)
                /\ calls[c].body.preferences.type = "array") =>
                  \/ calls[c].pc \in {"await", "fetched"}
                  \/ Ranked(c)

---------------------------------------------------------------------------
(* SpecNormalize: one caller normalizes any list of up to MaxAnswers       *)
(* answer records: recognized, unrecognized and inherited option values,   *)
(* priorities inside and outside 1..5 or left out, selectedValues and      *)
(* notes of every JSON type, repeated and unknown questionIds, and null.   *)

AnswerPool ==
    {AnswerRecord("budget", priority, JsArray(<<"value">>), JsUndefined) :
        priority \in {Nil, Some(0), Some(1), Some(5), Some(6), Some(-1)}}
    \cup {AnswerRecord("budget", Some(4), values, JsUndefined) :
            values \in {JsUndefined, JsNull, JsArray(<<>>), JsArray(<<"">>),
                        JsArray(<<"luxury">>), JsArray(<<"constructor">>),
                        JsArray(<<"luxury", "value">>), JsArray(<<"premium", "value">>),
                        JsString(<<"v", "a", "l", "u", "e">>), JsNumber(1)}}
    \cup {AnswerRecord("safety", priority, JsArray(values), JsUndefined) :
            priority \in {Nil, Some(2)},
            values \in {<<"max-safety">>, <<"toString">>, <<"safest", "max-safety">>}}
    \cup {AnswerRecord("usage", Nil, JsArray(values), JsUndefined) :
            values \in {<<"adventure">>, <<"adventure", "daily-commute">>,
                        <<"eco-conscious">>, <<"valueOf">>}}
    \cup {AnswerRecord("extras", Some(5), values, JsUndefined) :
            values \in {JsUndefined, JsArray(<<>>), JsArray(<<"eco-conscious">>),
                        JsArray(<<"bright-color", "eco-conscious">>),
                        JsArray(<<"eco-conscious", "eco-conscious">>),
                        JsArray(<<"sunroof", "eco-conscious">>), JsArray(<<"sunroof">>),
                        JsArray(<<"constructor", "eco-conscious">>),
                        JsString(<<"e", "c", "o">>), JsNumber(2)}}
    \cup {AnswerRecord("extras", Nil, JsArray(<<"higher-seating">>), JsUndefined),
          AnswerRecord("tech", Some(3), JsArray(<<"premium-tech">>), JsUndefined),
          AnswerRecord("tech", Some(3), JsArray(<<"hologram", "premium-tech">>), JsUndefined),
          AnswerRecord("timeline", Some(3), JsArray(<<"month", "two-weeks">>), JsUndefined),
          AnswerRecord("mileage", Some(5), JsArray(<<"value">>), JsUndefined),
          NullRecord}
    \cup {AnswerRecord("notes", Some(3), JsUndefined, notes) :
            notes \in {JsUndefined, JsNull, JsString(<<>>), JsString(<<" ", "\t">>),
                       JsString(<<"h", "i">>), JsString(<<" ", "h", "i", " ">>),
                       JsString(<<"h", " ", "i", "\n">>), JsNumber(5)}}

AnswerLists(pool) == UNION {[1..n -> pool] : n \in 0..MaxAnswers}

\* a call of mapPreferencesToProfile that has not been made
IdleNormalize == [pc |-> "idle", preferences |-> <<>>, result |-> Thrown]

\* mapPreferencesToProfile(preferences) runs: it returns or throws
Normalize(c, preferences) ==
    /\ calls[c].pc = "idle"
    /\ calls' = [calls EXCEPT ![c] =
                    [pc |-> "done", preferences |-> preferences,
                     result |-> mapPreferencesToProfile(preferences)]]
    /\ UNCHANGED <<catalog, page>>

InitNormalize ==
    /\ catalog = <<>>
    /\ calls = [c \in {1} |-> IdleNormalize]
    /\ page = IdlePage

NextNormalize == \E preferences \in AnswerLists(AnswerPool) : Normalize(1, preferences)

SpecNormalize == InitNormalize /\ [][NextNormalize]_vars

\* a finished call of mapPreferencesToProfile that returned
ReturnedCall(c) == Done(c) /\ ~calls[c].result.thrown

profileOf(c) == calls[c].result.profile

contextOf(c) == calls[c].result.context

\* the first record of the list with the questionId, Nil when there is none
firstRecord(preferences, id) ==
    LET at == {i \in 1..Len(preferences) :
                  preferences[i].type = "object" /\ preferences[i].questionId = id}
    IN IF at = {} THEN Nil
       ELSE Some(preferences[CHOOSE i \in at : \A j \in at : i <= j])

Axes == {"budget", "safety", "usage", "extras"}

\* C16: in every profile mapPreferencesToProfile returns, each present
\* axis has a priority in 1..5, and it is 3 when the axis's record has no
\* priority.
C16_PriorityWithinOneToFive ==
    \A c \in DOMAIN calls :
        ReturnedCall(c) =>
            \A axis \in Axes :
                profileOf(c)[axis] # Nil =>
                    /\ profileOf(c)[axis][1].priority # Nil
                    /\ profileOf(c)[axis][1].priority[1] \in 1..5
                    /\ firstRecord(calls[c].preferences, axis)[1].priority = Nil =>
                          profileOf(c)[axis][1].priority = Some(3)

\* the lookup table of an axis
axisMap(axis) ==
    CASE axis = "budget" -> BUDGET_MAP
      [] axis = "safety" -> SAFETY_MAP
      [] axis = "usage" -> USAGE_MAP
      [] axis = "extras" -> EXTRAS_MAP

\* the selected values of the axis's answer that count: all of them for
\* extras, the first for the other axes; none when there is no answer or
\* its selectedValues is not an array
countedValues(preferences, axis) ==
    LET record == firstRecord(preferences, axis)
    IN IF record = Nil \/ record[1].selectedValues.type # "array" THEN <<>>
       ELSE IF axis = "extras" THEN record[1].selectedValues.items
       ELSE SubSeq(record[1].selectedValues.items, 1,
                   Min2(1, Len(record[1].selectedValues.items)))

\* the counted values that are entries of the axis's lookup table
recognizedValues(preferences, axis) ==
    SelectSeq(countedValues(preferences, axis), LAMBDA value : value \in DOMAIN axisMap(axis))

\* C17: every call of mapPreferencesToProfile returns a profile and a
\* context, none throws; and an axis whose answer is absent, is not a list
\* of values or has no counted value in the axis's lookup table is not in
\* the profile.
C17_NeverThrowsAndOmits ==
    \A c \in DOMAIN calls :
        Done(c) =>
            /\ ~calls[c].result.thrown
            /\ \A axis \in Axes :
                  recognizedValues(calls[c].preferences, axis) = <<>> =>
                      profileOf(c)[axis] = Nil

IsBlank(text) == \A i \in 1..Len(text) : text[i] \in WhiteSpace

\* stored is text without the white space at its two ends
IsTrimmedFormOf(stored, text) ==
    /\ stored # <<>>
    /\ stored[1] \notin WhiteSpace /\ stored[Len(stored)] \notin WhiteSpace
    /\ \E first \in 1..Len(text) :
          /\ first + Len(stored) - 1 <= Len(text)
          /\ SubSeq(text, first, first + Len(stored) - 1) = stored
          /\ IsBlank(SubSeq(text, 1, first - 1))
          /\ IsBlank(SubSeq(text, first + Len(stored), Len(text)))

\* the text of the notes record when it has one that is not blank
notesText(preferences) ==
    LET record == firstRecord(preferences, "notes")
    IN IF record # Nil /\ record[1].notes.type = "string" /\ ~IsBlank(record[1].notes.text)
       THEN Some(record[1].notes.text)
       ELSE Nil

\* C18 as stated: when the notes record has a text that is not blank,
\* context.notes is the one-element list of that text, character for
\* character as supplied; otherwise context.notes is not set.
C18_NotesVerbatim ==
    \A c \in DOMAIN calls :
        ReturnedCall(c) =>
            LET text == notesText(calls[c].preferences)
            IN IF text # Nil
               THEN contextOf(c).notes = Some(<<text[1]>>)
               ELSE contextOf(c).notes = Nil

\* C18 as amended: when the notes record has a text that is not blank,
\* context.notes is the one-element list of that text without the white
\* space at its two ends, the characters between them unchanged; otherwise
\* context.notes is not set.
C18_NotesTrimmed ==
    \A c \in DOMAIN calls :
        ReturnedCall(c) =>
            LET text == notesText(calls[c].preferences)
            IN IF text # Nil
               THEN /\ contextOf(c).notes # Nil
                    /\ Len(contextOf(c).notes[1]) = 1
                    /\ IsTrimmedFormOf(contextOf(c).notes[1][1], text[1])
               ELSE contextOf(c).notes = Nil

\* C18 happens: notes were supplied with white space at both ends and
\* context.notes holds them without it, next to an axis of the profile.
C18_Witness ==
    \E c \in DOMAIN calls :
        /\ ReturnedCall(c)
        /\ notesText(calls[c].preferences) = Some(<<" ", "h", "i", " ">>)
        /\ contextOf(c).notes = Some(<<(<<"h", "i">>)>>)
        /\ profileOf(c) # EmptyProfile

---------------------------------------------------------------------------
(* SpecNoise: two callers normalize lists over records of scored axes and  *)
(* records that are not scored: notes, tech, an unknown questionId.        *)

ScoredPool ==
    {AnswerRecord("budget", Some(5), JsArray(<<"value">>), JsUndefined),
     AnswerRecord("budget", Nil, JsArray(<<"premium">>), JsUndefined),
     AnswerRecord("extras", Some(2), JsArray(<<"eco-conscious">>), JsUndefined)}

NoisePool ==
    {AnswerRecord("notes", Some(5), JsArray(<<"premium">>), JsString(<<" ", "h", "i">>)),
     AnswerRecord("tech", Some(1), JsArray(<<"premium-tech">>), JsUndefined),
     AnswerRecord("mileage", Some(4), JsArray(<<"value">>), JsUndefined),
     AnswerRecord("notes", Some(3), JsUndefined, JsNumber(5))}

InitNoise ==
    /\ catalog = <<>>
    /\ calls = [c \in {1, 2} |-> IdleNormalize]
    /\ page = IdlePage

NextNoise ==
    \E c \in {1, 2}, preferences \in AnswerLists(ScoredPool \cup NoisePool) :
        Normalize(c, preferences)

SpecNoise == InitNoise /\ [][NextNoise]_vars

\* the records of the scored axes, in list order
scoredRecords(preferences) ==
    SelectSeq(preferences, LAMBDA record : record.type = "object" /\ record.questionId \in Axes)

\* C19: of two calls whose lists have the same budget, safety, usage and
\* extras records in the same order, and differ at most in other records,
\* when one returned a profile the other returned the same profile.
C19_ProfileIgnoresUnscoredRecords ==
    \A c, d \in DOMAIN calls :
        (/\ Done(c) /\ Done(d)
         /\ scoredRecords(calls[c].preferences) = scoredRecords(calls[d].preferences)
         /\ ReturnedCall(c)) =>
            /\ ReturnedCall(d)
            /\ profileOf(d) = profileOf(c)

---------------------------------------------------------------------------
(* Which selected values count, under SpecNormalize *)

\* the first selected value of the record of a context-only question when
\* the question's table has it
recognizedText(preferences, id, map) ==
    LET record == firstRecord(preferences, id)
    IN IF /\ record # Nil
          /\ record[1].selectedValues.type = "array"
          /\ record[1].selectedValues.items # <<>>
          /\ record[1].selectedValues.items[1] \in DOMAIN map
       THEN Some(map[record[1].selectedValues.items[1]])
       ELSE Nil

\* C20: in a returned profile the extras tags are the tags of the selected
\* extras values that EXTRAS_MAP has, in their order, the others dropped,
\* and the axis is left out when there is none; budget, safety and usage
\* are what their table gives for the first selected value alone, and are
\* left out when the table does not have the first value, whatever values
\* follow it; tech and timeline likewise in the context.
C20_ExtrasAllOthersFirst ==
    \A c \in DOMAIN calls :
        ReturnedCall(c) =>
            LET preferences == calls[c].preferences
                extras == recognizedValues(preferences, "extras")
                budget == recognizedValues(preferences, "budget")
                safety == recognizedValues(preferences, "safety")
                usage == recognizedValues(preferences, "usage")
            IN /\ IF extras = <<>> THEN profileOf(c).extras = Nil
                  ELSE /\ profileOf(c).extras # Nil
                       /\ profileOf(c).extras[1].tags =
                             [i \in 1..Len(extras) |-> EXTRAS_MAP[extras[i]].tag]
               /\ IF budget = <<>> THEN profileOf(c).budget = Nil
                  ELSE /\ profileOf(c).budget # Nil
                       /\ profileOf(c).budget[1].min = Some(BUDGET_MAP[budget[1]].range.min)
                       /\ profileOf(c).budget[1].max = Some(BUDGET_MAP[budget[1]].range.max)
               /\ IF safety = <<>> THEN profileOf(c).safety = Nil
                  ELSE /\ profileOf(c).safety # Nil
                       /\ profileOf(c).safety[1].level = SAFETY_MAP[safety[1]].level
               /\ IF usage = <<>> THEN profileOf(c).usage = Nil
                  ELSE /\ profileOf(c).usage # Nil
                       /\ profileOf(c).usage[1].tags = <<USAGE_MAP[usage[1]].tag>>
               /\ contextOf(c).techPreference = recognizedText(preferences, "tech", TECH_MAP)
               /\ contextOf(c).timelineExpectation =
                     recognizedText(preferences, "timeline", TIMELINE_MAP)

---------------------------------------------------------------------------
(* Repeated selections, under SpecNormalize *)

\* a list without its repeats, first occurrences kept in order
RECURSIVE distinctTags(_)
distinctTags(tags) ==
    IF tags = <<>> THEN <<>>
    ELSE LET front == SubSeq(tags, 1, Len(tags) - 1)
             last == tags[Len(tags)]
         IN IF last \in Range(front) THEN distinctTags(front)
            ELSE distinctTags(front) \o <<last>>

\* C21: the tags of a present usage or extras axis of a returned profile
\* hold no tag twice, whatever the selectedValues list repeats, so that
\* every row is scored on that axis with the ratio of its matches to the
\* number of distinct requested tags.
C21_TagsHoldNoTagTwice ==
    \A c \in DOMAIN calls : \A axis \in TagAxes :
        (ReturnedCall(c) /\ profileOf(c)[axis] # Nil) =>
            LET pref == profileOf(c)[axis][1]
                asSet == Some(TagPreference(distinctTags(pref.tags), pref.priority))
            IN /\ \A i, j \in 1..Len(pref.tags) : pref.tags[i] = pref.tags[j] => i = j
               /\ \A vehicleTags \in SUBSET axisEnum(axis) :
                     scoreTags(vehicleTags, profileOf(c)[axis], axisWeight(axis))
                         = scoreTags(vehicleTags, asSet, axisWeight(axis))

---------------------------------------------------------------------------
(* The budget ceiling in retrieval, under Spec *)

\* C22: when the profile has a budget ceiling, no row that getTopVehicles
\* returns has an msrpMax over the ceiling by more than the 2500 band,
\* whatever the size of the catalog and the limit.
C22_OverBandNeverReturned ==
    \A c \in DOMAIN calls :
        (/\ Done(c)
         /\ calls[c].profile.budget # Nil
         /\ calls[c].profile.budget[1].max # Nil) =>
            \A i \in 1..Len(calls[c].scored) :
                AtMost(calls[c].scored[i].vehicle.msrpMax,
                       calls[c].profile.budget[1].max, 2500)

---------------------------------------------------------------------------
(* The total and its breakdown, under Spec *)

ScoredAxes == {"budget", "safety", "usage", "extras"}

\* the preference of an axis with its priority set to 1: what the axis
\* function returns for it is the raw score of the axis (times Scale)
atPriorityOne(profile, axis) ==
    IF profile[axis] = Nil THEN Nil
    ELSE Some([profile[axis][1] EXCEPT !.priority = Some(1)])

rawScore(vehicle, profile, axis) ==
    CASE axis = "budget" -> scoreBudget(vehicle, atPriorityOne(profile, axis))
      [] axis = "safety" -> scoreSafety(vehicle, atPriorityOne(profile, axis))
      [] axis = "usage" -> scoreTags(vehicle.fitTags, atPriorityOne(profile, axis), 4)
      [] axis = "extras" -> scoreTags(vehicle.extrasTags, atPriorityOne(profile, axis), 2)

\* the priority an axis is weighted with: its own, 3 when it has none
priorityOf(profile, axis) ==
    IF profile[axis][1].priority = Nil THEN 3 ELSE profile[axis][1].priority[1]

\* C23: for every row a call scored, the total is the sum of the four
\* breakdown entries, and each entry is the raw score of its axis times the
\* priority of the axis (3 when the axis is present without a priority, and
\* the entry is 0 when the axis is absent); nothing is clamped or rescaled.
C23_TotalIsSumOfWeightedAxes ==
    \A c \in DOMAIN calls :
        Done(c) =>
            \A i \in 1..Len(calls[c].scored) :
                LET r == calls[c].scored[i]
                    profile == calls[c].profile
                IN /\ r.score = r.scoreBreakdown.budget + r.scoreBreakdown.safety
                                + r.scoreBreakdown.usage + r.scoreBreakdown.extras
                   /\ DOMAIN r.scoreBreakdown = ScoredAxes
                   /\ \A axis \in ScoredAxes :
                         r.scoreBreakdown[axis] =
                            IF profile[axis] = Nil THEN 0
                            ELSE rawScore(r.vehicle, profile, axis)
                                 * priorityOf(profile, axis)

\* C23 happens: a call returned a row with a negative entry on an axis
\* with an explicit priority other than 1 and a positive entry on an axis
\* without a priority, so that its total is below the positive entry.
C23_Witness ==
    \E c \in DOMAIN calls :
        /\ Done(c)
        /\ \E i \in 1..Len(calls[c].scored) : \E a, b \in ScoredAxes :
              /\ calls[c].profile[a] # Nil /\ calls[c].profile[b] # Nil
              /\ calls[c].profile[a][1].priority \notin {Nil, Some(1)}
              /\ calls[c].profile[b][1].priority = Nil
              /\ calls[c].scored[i].scoreBreakdown[a] < 0
              /\ calls[c].scored[i].scoreBreakdown[b] > 0
              /\ calls[c].scored[i].score < calls[c].scored[i].scoreBreakdown[b]

---------------------------------------------------------------------------
(* The budget table, under SpecBudget *)

\* the ceiling part as the table gives it; no max counts as +infinity
tableCeiling(msrpMax, max) ==
    IF max = Nil THEN 8
    ELSE IF msrpMax <= max[1] - 2000 THEN 8
    ELSE IF msrpMax <= max[1] THEN 6
    ELSE IF msrpMax <= max[1] + 2500 THEN 2
    ELSE -6

\* the floor part as the table gives it; it applies when min is set and > 0
tableFloor(msrpMin, min) ==
    IF min = Nil THEN 0
    ELSE IF min[1] <= 0 THEN 0
    ELSE IF msrpMin >= min[1] THEN 2
    ELSE IF msrpMin >= min[1] - 2000 THEN 1
    ELSE -2

\* C24: the budget entry of every scored row is the priority of the budget
\* preference (3 when it has none) times the sum of the table's ceiling
\* part and floor part for the row's msrpMax and msrpMin, and it is 0 when
\* the profile has no budget preference.
C24_BudgetScoreIsTheTable ==
    \A c \in DOMAIN calls :
        Done(c) =>
            \A i \in 1..Len(calls[c].scored) :
                LET r == calls[c].scored[i]
                    pref == calls[c].profile.budget
                IN r.scoreBreakdown.budget =
                      IF pref = Nil THEN 0
                      ELSE (tableCeiling(r.vehicle.msrpMax, pref[1].max)
                            + tableFloor(r.vehicle.msrpMin, pref[1].min))
                           * Scale * priorityOf(calls[c].profile, "budget")

\* C24 happens: a call with a ceiling and a floor scored a row priced
\* exactly on the floor and exactly on the edge of the tolerance band.
C24_Witness ==
    \E c \in DOMAIN calls : \E r \in BudgetScored(c) :
        LET pref == calls[c].profile.budget[1]
        IN /\ pref.max # Nil /\ pref.min # Nil
           /\ r.vehicle.msrpMin = pref.min[1]
           /\ r.vehicle.msrpMin > 0
           /\ r.vehicle.msrpMax = pref.max[1] + 2500
           /\ r.scoreBreakdown.budget = 4 * Scale * priorityOf(calls[c].profile, "budget")

---------------------------------------------------------------------------
(* The tag-overlap formula, under SpecTags *)

\* C25: the entry of a tag axis of every scored row is 0 when the axis has
\* no preference or the preference requests no tag; it is -3 times the
\* priority when the row has none of the requested tags; otherwise it is
\* the priority times (matches x base weight + 2 x matches / requested),
\* where matches is the number of the row's tags that are requested,
\* requested is the length of the requested list, and the base weight is 4
\* for usage and 2 for extras; the ratio matches / requested is above 0 and
\* at most 1.
C25_TagScoreIsTheFormula ==
    \A c \in DOMAIN calls : \A axis \in TagAxes :
        Done(c) =>
            \A i \in 1..Len(calls[c].scored) :
                LET r == calls[c].scored[i]
                    pref == calls[c].profile[axis]
                    entry == r.scoreBreakdown[axis]
                IN IF pref = Nil THEN entry = 0
                   ELSE LET requested == Len(pref[1].tags)
                            matches == Cardinality(axisTags(r.vehicle, axis)
                                                   \cap Range(pref[1].tags))
                            priority == priorityOf(calls[c].profile, axis)
                        IN IF requested = 0 THEN entry = 0
                           ELSE IF matches = 0 THEN entry = -3 * Scale * priority
                           ELSE /\ 0 < matches /\ matches <= requested
                                /\ entry * requested =
                                      priority * Scale
                                      * (matches * axisWeight(axis) * requested
                                         + 2 * matches)

\* C25 happens: a call whose preference lists three tags, one of them
\* twice, scored a row that has one of the two distinct tags, the repeated
\* one: one match of three requested.
C25_Witness ==
    \E c \in DOMAIN calls : \E axis \in TagAxes : \E r \in Range(calls[c].scored) :
        /\ Done(c)
        /\ calls[c].profile[axis] # Nil
        /\ LET tags == calls[c].profile[axis][1].tags
           IN /\ Len(tags) = 3
              /\ tags[1] = tags[3] /\ tags[1] # tags[2]
              /\ axisTags(r.vehicle, axis) \cap Range(tags) = {tags[1]}
              /\ 3 * r.scoreBreakdown[axis] =
                    priorityOf(calls[c].profile, axis) * Scale
                    * (3 * axisWeight(axis) + 2)

---------------------------------------------------------------------------
(* Totality of scoring, under Spec *)

\* C26: for every row of a call's snapshot, scoreVehicle returns a total
\* and four entries that are numbers, and neither tag axis evaluates its
\* match-ratio division with the divisor 0: not for an empty requested
\* list, an empty row tag list, a budget without min or max, or a row
\* without an NHTSA rating.
C26_ScoringIsTotal ==
    \A c \in DOMAIN calls :
        Done(c) =>
            \A i \in 1..Len(calls[c].vehicles) :
                LET vehicle == calls[c].vehicles[i]
                    profile == calls[c].profile
                    r == scoreVehicle(vehicle, profile)
                IN /\ r.total \in Int
                   /\ \A axis \in DOMAIN r.breakdown : r.breakdown[axis] \in Int
                   /\ 0 \notin tagDivisors(vehicle.fitTags, profile.usage)
                   /\ 0 \notin tagDivisors(vehicle.extrasTags, profile.extras)

\* C26 happens: a call whose profile has a budget without max and a usage
\* preference that requests no tag scored a row that has no fit tag and no
\* NHTSA rating, and a row whose extras ratio was divided.
C26_Witness ==
    \E c \in DOMAIN calls :
        /\ Done(c)
        /\ calls[c].profile.budget # Nil
        /\ calls[c].profile.budget[1].max = Nil
        /\ calls[c].profile.usage # Nil
        /\ calls[c].profile.usage[1].tags = <<>>
        /\ \E i \in 1..Len(calls[c].scored) :
              /\ calls[c].scored[i].vehicle.fitTags = {}
              /\ calls[c].scored[i].vehicle.safetyNhtsaOverall = Nil
              /\ calls[c].scored[i].scoreBreakdown.usage = 0
        /\ \E i \in 1..Len(calls[c].scored) :
              tagDivisors(calls[c].scored[i].vehicle.extrasTags, calls[c].profile.extras) = {1}

---------------------------------------------------------------------------
(* Repeated questions, under SpecNormalize *)

\* the list without the records whose questionId an earlier record carries
RECURSIVE withoutLaterRecords(_)
withoutLaterRecords(preferences) ==
    IF preferences = <<>> THEN <<>>
    ELSE LET front == SubSeq(preferences, 1, Len(preferences) - 1)
             last == preferences[Len(preferences)]
         IN IF /\ last.type = "object"
               /\ \E j \in 1..Len(front) :
                     front[j].type = "object" /\ front[j].questionId = last.questionId
            THEN withoutLaterRecords(front)
            ELSE withoutLaterRecords(front) \o <<last>>

\* a call whose list carries some questionId more than once
HasRepeatedQuestion(c) ==
    Done(c) /\ withoutLaterRecords(calls[c].preferences) # calls[c].preferences

\* C27: a call whose list carries a questionId more than once ends as the
\* call ends on the list without the later records of each questionId, in
\* profile and in context; and when the first record of a scored axis has
\* no selected value, or none that the axis's table has, the axis is left
\* out of the profile whatever the later records select.
C27_OnlyFirstRecordCounts ==
    \A c \in DOMAIN calls :
        HasRepeatedQuestion(c) =>
            /\ calls[c].result =
                  mapPreferencesToProfile(withoutLaterRecords(calls[c].preferences))
            /\ ReturnedCall(c) =>
                  \A axis \in Axes :
                      recognizedValues(calls[c].preferences, axis) = <<>> =>
                          profileOf(c)[axis] = Nil

---------------------------------------------------------------------------
(* SpecQuiz: the normalizer on every answer list the quiz can submit for   *)
(* the scored questions                                                    *)

\* the scored questions of the quiz, in the order of the list, with the
\* values of their options in the order they are offered
questions ==
    <<[id |-> "budget", type |-> "single",
       options |-> <<"value", "cpo-balance", "premium">>],
      [id |-> "safety", type |-> "single",
       options |-> <<"baseline-safety", "advanced-adas", "max-safety">>],
      [id |-> "usage", type |-> "single",
       options |-> <<"daily-commute", "shared-family", "adventure">>],
      [id |-> "extras", type |-> "multi",
       options |-> <<"american-made", "bright-color", "eco-conscious",
                     "certified-only", "flexible">>]>>

\* the selectedValues the page builds for an answered question: the one
\* chosen option, or the chosen options (at least one) in the order offered
quizSelections(question) ==
    IF question.type = "single"
    THEN {<<question.options[i]>> : i \in 1..Len(question.options)}
    ELSE {SelectSeq(question.options, LAMBDA value : value \in chosen) :
             chosen \in (SUBSET Range(question.options)) \ {{}}}

\* the priorities the slider of a question gives: 1..5, 3 untouched
SliderPriorities == {1, 3, 5}

\* the lists the page submits: the answered questions in the order of the
\* list, one record each; answers[i] = <<>> is a question left unanswered
RECURSIVE quizRecords(_, _, _)
quizRecords(answers, priority, i) ==
    IF i > Len(questions) THEN <<>>
    ELSE (IF answers[i] = <<>> THEN <<>>
          ELSE <<AnswerRecord(questions[i].id, Some(priority),
                              JsArray(answers[i]), JsUndefined)>>)
         \o quizRecords(answers, priority, i + 1)

\* what the page holds for question i: one of its selections, or no answer
quizAnswers(i) == quizSelections(questions[i]) \cup {<<>>}

quizPreferences ==
    {quizRecords(<<budget, safety, usage, extras>>, priority, 1) :
        budget \in quizAnswers(1), safety \in quizAnswers(2),
        usage \in quizAnswers(3), extras \in quizAnswers(4),
        priority \in SliderPriorities}

InitQuiz ==
    /\ catalog = <<>>
    /\ calls = [c \in {1} |-> IdleNormalize]
    /\ page = IdlePage

NextQuiz == \E preferences \in quizPreferences : Normalize(1, preferences)

SpecQuiz == InitQuiz /\ [][NextQuiz]_vars

\* C28: for every answer the quiz submits for a scored question, every
\* selected option value is an entry of the question's lookup table, the
\* axis is in the returned profile, and a tag axis holds one tag per
\* selected option.
C28_EveryQuizOptionHasAnEntry ==
    \A c \in DOMAIN calls :
        Done(c) =>
            /\ ~calls[c].result.thrown
            /\ \A axis \in Axes :
                  LET record == firstRecord(calls[c].preferences, axis)
                  IN record # Nil =>
                        LET values == record[1].selectedValues.items
                        IN /\ \A i \in 1..Len(values) :
                                 values[i] \in DOMAIN axisMap(axis)
                           /\ profileOf(c)[axis] # Nil
                           /\ axis \in TagAxes =>
                                 Len(profileOf(c)[axis][1].tags) = Len(values)

---------------------------------------------------------------------------
(* Rows without an NHTSA rating, under SpecSafety *)

\* what the NHTSA line contributes for a rating below every threshold
belowEveryThreshold(level) ==
    CASE level = "baseline" -> -2
      [] level = "advanced" -> 0
      [] level = "max" -> -4

\* C29: a scored row without an NHTSA rating has the safety entry of the
\* same row rated 1, below every threshold: the priority times the sum of
\* its IIHS points, its notable-feature points and -2 at baseline, 0 at
\* advanced, -4 at max.
C29_MissingRatingIsBelowThreshold ==
    \A c \in DOMAIN calls : \A r \in SafetyScored(c) :
        r.vehicle.safetyNhtsaOverall = Nil =>
            LET pref == calls[c].profile.safety
                level == pref[1].level
            IN /\ r.scoreBreakdown.safety =
                     scoreSafety([r.vehicle EXCEPT !.safetyNhtsaOverall = Some(1)], pref)
               /\ r.scoreBreakdown.safety =
                     (iihsPoints(level, r.vehicle.safetyIihsTopSafetyPick)
                      + notablePoints(level, Len(r.vehicle.safetyNotableFeatures))
                      + belowEveryThreshold(level))
                     * Scale * priorityOf(calls[c].profile, "safety")

\* C29 happens: a call at level max scored a row that has the IIHS pick,
\* three notable features and no NHTSA rating: (8 + 4 - 4) x priority.
C29_Witness ==
    \E c \in DOMAIN calls : \E r \in SafetyScored(c) :
        /\ r.vehicle.safetyNhtsaOverall = Nil
        /\ r.vehicle.safetyIihsTopSafetyPick
        /\ Len(r.vehicle.safetyNotableFeatures) = 3
        /\ calls[c].profile.safety[1].level = "max"
        /\ r.scoreBreakdown.safety = 8 * Scale * priorityOf(calls[c].profile, "safety")

---------------------------------------------------------------------------
(* The vehicle lookup of the quiz page: page.tsx lines 1748-1763 and       *)
(* 1987-2088, and the form of lines 2350-2415                              *)

\* new Date().getFullYear() + 1
futureYear == 2027

\* what the user types into the three fields of the form
LookupTexts(field) ==
    CASE field = "lookupYear" -> {<<>>, <<"2", "0", "2", "1">>}
      [] field = "lookupMake" -> {<<>>, <<" ">>, <<"K", "i", "a">>}
      [] field = "lookupModel" -> {<<>>, <<"R", "i", "o">>, <<"R", "i", "o", " ">>}

\* the quiz is answered: summarizedEntries is no longer empty
AnswerQuiz ==
    /\ ~page.hasSummary
    /\ page' = [page EXCEPT !.hasSummary = TRUE]
    /\ UNCHANGED <<catalog, calls>>

\* onChange of a field of the form: setLookupYear, setLookupMake,
\* setLookupModel
EditLookup(field, text) ==
    /\ page[field] # text
    /\ page' = [page EXCEPT ![field] = text]
    /\ UNCHANGED <<catalog, calls>>

\* the disabled attribute of the submit button
lookupDisabled ==
    \/ ~page.hasSummary
    \/ page.lookupStatus = "loading"
    \/ trim(page.lookupMake) = <<>>
    \/ trim(page.lookupModel) = <<>>

\* the form is submitted: handleVehicleLookup up to its await fetch(...)
handleVehicleLookup ==
    LET trimmedMake == trim(page.lookupMake)
        trimmedModel == trim(page.lookupModel)
        trimmedYear == trim(page.lookupYear)
        parsed == IF trimmedYear = <<>> THEN Nil ELSE parseInt(trimmedYear)
        failed(message) == [page EXCEPT !.lookupStatus = "error",
                                        !.lookupError = Some(message),
                                        !.applied = 0]
        id == page.submitted + 1
    IN /\ ~lookupDisabled
       /\ page.submitted < MaxLookups
       /\ page' =
             IF ~page.hasSummary THEN page
             ELSE IF trimmedMake = <<>> \/ trimmedModel = <<>>
             THEN failed("Please provide both a make and model to evaluate.")
             ELSE IF trimmedYear # <<>> /\ parsed = Nil
             THEN failed("Year must be a valid number (e.g., 2016).")
             ELSE IF parsed # Nil /\ (parsed[1] < 1985 \/ parsed[1] > futureYear)
             THEN failed("Enter a year between 1985 and the coming year.")
             ELSE [page EXCEPT !.lookupStatus = "loading",
                               !.lookupError = Nil,
                               !.submitted = id,
                               !.applied = 0,
                               !.pending = @ \cup {[id |-> id,
                                                    make |-> trimmedMake,
                                                    model |-> trimmedModel,
                                                    year |-> parsed]}]
       /\ UNCHANGED <<catalog, calls>>

\* the fetch of a lookup settles and handleVehicleLookup resumes: with an
\* ok response it stores the result (here: whose lookup it answers) and
\* shows success, otherwise it shows the error
LookupSettles(request, ok) ==
    /\ request \in page.pending
    /\ page' =
          IF ok
          THEN [page EXCEPT !.pending = @ \ {request},
                            !.lookupResult = Some([make |-> request.make,
                                                   model |-> request.model,
                                                   year |-> request.year]),
                            !.lookupStatus = "success",
                            !.applied = request.id]
          ELSE [page EXCEPT !.pending = @ \ {request},
                            !.lookupStatus = "error",
                            !.lookupError =
                                Some("Unable to evaluate that vehicle right now."),
                            !.applied = request.id]
    /\ UNCHANGED <<catalog, calls>>

\* "Start over": every state of the page back to its initial value; the
\* lookups in flight stay in flight
resetQuiz ==
    /\ page' = [IdlePage EXCEPT !.pending = page.pending,
                                !.submitted = page.submitted,
                                !.resetAt = page.submitted]
    /\ UNCHANGED <<catalog, calls>>

InitPage ==
    /\ catalog = <<>>
    /\ calls = <<>>
    /\ page = IdlePage

NextPage ==
    \/ AnswerQuiz
    \/ \E field \in {"lookupYear", "lookupMake", "lookupModel"} :
          \E text \in LookupTexts(field) : EditLookup(field, text)
    \/ handleVehicleLookup
    \/ \E request \in page.pending : \E ok \in BOOLEAN : LookupSettles(request, ok)
    \/ resetQuiz

SpecPage == InitPage /\ [][NextPage]_vars

\* C30: the lookup status and result the page shows after a response was
\* applied belong to the lookup submitted last, and that lookup was
\* submitted after the last resetQuiz: no response of an earlier lookup
\* replaces a later one, and none is applied after a reset.
C30_ShownLookupIsTheLatest ==
    page.applied # 0 =>
        /\ page.applied = page.submitted
        /\ page.applied > page.resetAt

====
